---- MODULE Spec2Model ----
(***************************************************************************)
(* Verification model of div0ky/flow: the configuration resolver, the      *)
(* branch classifier and the git workflow orchestrators.                   *)
(*                                                                         *)
(* Several specifications share the module's variables:                    *)
(*   SpecConfig   config-manager / config-validation / config commands     *)
(*   SpecGit      the pure branch helpers of workflows/git                 *)
(*   SpecFlow     the commit workflow, release staging and the finish      *)
(*                workflows with the helpers of pr-shared                  *)
(*   SpecLinear   the pure helpers of workflows/linear                     *)
(*   SpecAi       the content generators of workflows/ai                   *)
(*   SpecRelease  ensureRequiredBranches and startRelease                  *)
(*   SpecCli      the signal and error handlers of cli.ts; SpecCliFair     *)
(*                adds the fairness of the grace timer                     *)
(*   SpecTracker  linkLinearIssueToPR and updateLinearIssue against the    *)
(*                issues and comments of the tracker                       *)
(*   SpecWorktree startFeature, startHotfix and the stash helpers of       *)
(*                pr-shared over the working tree and the stash            *)
(* Program strings are sequences of one-character strings, so that         *)
(* prefixes, case and separators are computed as the code computes them.   *)
(***************************************************************************)
EXTENDS Integers, Sequences, FiniteSets, TLC

VARIABLES
    \* ---- configuration resolver ----
    localFile,      \* ./.div-flow.json
    globalFile,     \* ~/.div-flow/config.json
    env,            \* process.env, the five variables of ENV_TO_CONFIG
    cfgOp,          \* the last configuration operation and its arguments
    cfgRet,         \* the Config returned by the last getConfig()
    cfgVal,         \* the value returned by getConfigValue()/isLinearEnabled()
    cfgWarned,      \* files the last operation logged a consola.warn for
    cfgThrew,       \* TRUE iff the last operation raised to its caller
    cfgSrc,         \* the source the last getConfig() answered from
    cfgWrites,      \* number of writes performed so far
    \* ---- branch classifier ----
    gitIn,          \* the branch name handed to the helper
    gitType,        \* result of getBranchType, "none" before the call
    gitProt,        \* result of isProtectedBranch, "none" before the call
    \* ---- workflow orchestration ----
    impl,           \* which commit-workflow source runs: "part_007" or "commit-workflow.ts"
    flowOp,         \* the workflow of the current invocation, "none" before the first
    pc,             \* position of the running workflow
    runs,           \* 1 once main() has dispatched the workflow, else 0
    head,           \* the local branch that is checked out
    remoteHeads,    \* the branch names that exist on origin
    linearOn,       \* what isLinearEnabled() answers
    apiKey,         \* TRUE iff config.linearApiKey is set
    cwBranch,       \* current_branch as commitWorkflow captured it
    issue,          \* identifier of the Linear issue created, Null if none
    renameRet,      \* what renameBranchToLinearPattern returned, "none" before
    msg,            \* origin of the commit message at hand
    committed,      \* TRUE iff git commit succeeded in this invocation
    err,            \* the kind of error the catch block of processCommit received
    forceRun,       \* every git push --force executed: its call site and remote ref
    moveRun,        \* branches git branch -m was executed on
    deleteRun,      \* remote refs git push origin --delete was executed on
    reported,       \* the messages the last step showed to the user
    exitCode,       \* process.exit code, "none" while running or after a return
    stashed,        \* TRUE iff the stash list holds "flow-automator: temporary stash"
    prs,            \* the pull requests gh pr create has opened: base, head, workflow
    finBranch,      \* current_branch of the running finish workflow
    linearActs,     \* what the session did with the issue tracker: offers, prompts, calls
    \* ---- pure helpers of workflows/linear ----
    linIn,          \* the arguments handed to the helper
    linOut,         \* the results, <<>> before the call
    \* ---- AI content generation (workflows/ai) ----
    aiOp,           \* the generator being called, "none" before the first call
    aiPc,           \* position inside the generator
    aiInstance,     \* TRUE iff the GoogleGenAI singleton has been constructed
    googleAiKey,    \* TRUE iff config.googleAiKey is set
    aiCalls,        \* number of generator calls made by the process so far
    streamReqs,     \* generateContentStream requests issued by the current call
    plainReqs,      \* generateContent requests issued by the current call
    streamOut,      \* how the streaming try block of the current call ended, "none" before
    plainOut,       \* how the non-streaming fallback of the current call ended, "none" before
    aiRet,          \* how the current call ended: "none", "content", "null" or "raised"
    \* ---- process signals (cli.ts) ----
    isExiting,      \* the module-level flag of cli.ts
    cliPc,          \* "main" before dispatch, "workflow", "returned", "exited"
    timerArmed,     \* TRUE iff the 100 ms setTimeout of handleExit is pending
    signals,        \* number of SIGINT/SIGTERM delivered so far
    cliExit,        \* process.exit code, "none" while the process lives
    cliExitBy,      \* who called process.exit: "none", "timer", "handleExit", ...
    cliErrors,      \* consola.error reports made while isExiting was set
    \* ---- release start (release-workflow.ts) ----
    relPc,          \* position inside startRelease
    relCurrent,     \* the branch that is checked out
    originHeads,    \* the branches that exist on origin
    trackingRefs,   \* the remote-tracking refs git branch -r lists
    relDate,        \* the release date the user entered
    relIncrement,   \* what getNextReleaseIncrement returned, 0 before the call
    relBranch,      \* branch_name of startRelease, <<>> before it is built
    relExit,        \* process.exit code, "none" while running or after a return
    relReported,    \* the last message shown to the user
    \* ---- issue tracker (linkLinearIssueToPR, updateLinearIssue) ----
    trkIssues,      \* the issues of the workspace, each a team key and a number
    trkTitles,      \* issue -> the title it carries
    trkComments,    \* issue -> the bodies of its comments
    trkCreated,     \* <<issue, PR URL>> -> comments the calls with is_update false created
    trkTouched,     \* <<identifier passed, issue>> pairs the calls modified
    trkCalls,       \* number of calls made so far
    trkRet,         \* the last call: its result, and what it resolved and created
    \* ---- working tree and stash (feature/hotfix start, pr-shared) ----
    wtOp,           \* the workflow that runs, "none" before it starts
    wtPc,           \* position inside the workflow
    wtCurrent,      \* the branch that is checked out
    wtDirty,        \* TRUE iff git status reports uncommitted changes
    stashList,      \* git stash list, newest entry first
    stashedChanges, \* TRUE iff this run has stashed the user's changes
    popped,         \* the stash entries git stash pop has applied and dropped
    popAttempted,   \* TRUE iff this run has executed git stash pop
    destructive,    \* the destructive commands executed: reset --hard, clean -fd
    answers,        \* the user's answers so far, in order
    wtExit          \* process.exit code, "none" while running or after a return

cfgVars == <<localFile, globalFile, env, cfgOp, cfgRet, cfgVal, cfgWarned, cfgThrew, cfgSrc, cfgWrites>>
gitVars == <<gitIn, gitType, gitProt>>
flowVars == <<impl, flowOp, pc, runs, head, remoteHeads, linearOn, apiKey, cwBranch, issue,
              renameRet, msg, committed, err, forceRun, moveRun, deleteRun, reported, exitCode,
              stashed, prs, finBranch, linearActs>>
finVars == <<stashed, prs, finBranch>>
linVars == <<linIn, linOut>>
aiVars == <<aiOp, aiPc, aiInstance, googleAiKey, aiCalls, streamReqs, plainReqs, streamOut, plainOut,
            aiRet>>
cliVars == <<isExiting, cliPc, timerArmed, signals, cliExit, cliExitBy, cliErrors>>
relVars == <<relPc, relCurrent, originHeads, trackingRefs, relDate, relIncrement, relBranch,
             relExit, relReported>>
trkVars == <<trkIssues, trkTitles, trkComments, trkCreated, trkTouched, trkCalls, trkRet>>
wtVars == <<wtOp, wtPc, wtCurrent, wtDirty, stashList, stashedChanges, popped, popAttempted,
            destructive, answers, wtExit>>
vars == <<cfgVars, gitVars, flowVars, linVars, aiVars, cliVars, relVars, trkVars, wtVars>>

(***************************************************************************)
(* JSON / JavaScript values                                                *)
(***************************************************************************)
Undef == <<"undef">>
Str(s) == <<"str", s>>
Bool(b) == <<"bool", b>>
JsTrue == Bool("true")
JsFalse == Bool("false")
IsStr(v) == v[1] = "str"
IsBool(v) == v[1] = "bool"

\* String.prototype.toLowerCase, character by character
UpperChars == <<"A", "B", "C", "D", "E", "F", "G", "H", "I", "J", "K", "L", "M",
                "N", "O", "P", "Q", "R", "S", "T", "U", "V", "W", "X", "Y", "Z">>
LowerChars == <<"a", "b", "c", "d", "e", "f", "g", "h", "i", "j", "k", "l", "m",
                "n", "o", "p", "q", "r", "s", "t", "u", "v", "w", "x", "y", "z">>

ToLowerChar(c) ==
    IF \E i \in 1..26 : UpperChars[i] = c
    THEN LowerChars[CHOOSE i \in 1..26 : UpperChars[i] = c]
    ELSE c

toLowerCase(s) == [i \in 1..Len(s) |-> ToLowerChar(s[i])]

(***************************************************************************)
(* config/config.ts                                                        *)
(***************************************************************************)
CONFIG_KEYS == {"googleAiKey", "githubToken", "linearApiKey", "linearEnabled"}
StringKeys == {"googleAiKey", "githubToken", "linearApiKey"}
\* "extra" stands for any key the schema does not know
FileKeys == CONFIG_KEYS \cup {"extra"}
EnvKeys == {"GOOGLE_AI_KEY", "GH_TOKEN", "GITHUB_TOKEN", "LINEAR_API_KEY", "LINEAR_ENABLED"}

EmptyConfig == [k \in CONFIG_KEYS |-> Undef]
NoFields == [k \in FileKeys |-> Undef]

AbsentFile == [kind |-> "absent", fields |-> NoFields]
MalformedFile == [kind |-> "malformed", fields |-> NoFields]
JsonFile(f) == [kind |-> "json", fields |-> f]

\* configSchema.parse succeeds: the three keys are optional strings,
\* linearEnabled is an optional boolean
SchemaOk(fields) ==
    /\ \A k \in StringKeys : fields[k] = Undef \/ IsStr(fields[k])
    /\ fields["linearEnabled"] = Undef \/ IsBool(fields["linearEnabled"])

\* the parsed object: unknown keys stripped, linearEnabled defaulted to true
configSchema(fields) ==
    [k \in CONFIG_KEYS |->
        IF k = "linearEnabled" /\ fields[k] = Undef THEN JsTrue ELSE fields[k]]

(***************************************************************************)
(* config/config-manager.ts                                                *)
(***************************************************************************)
\* readConfigFile: null (ok = FALSE) for a missing file; a warning and null
\* for unparsable JSON or a schema violation; never throws
readConfigFileMutThrow(file, name) ==
    IF file.kind = "absent"
    THEN [ok |-> FALSE, cfg |-> EmptyConfig, warn |-> {}, threw |-> FALSE]
    ELSE IF file.kind = "json" /\ SchemaOk(file.fields)
    THEN [ok |-> TRUE, cfg |-> configSchema(file.fields), warn |-> {}, threw |-> FALSE]
    ELSE [ok |-> FALSE, cfg |-> EmptyConfig, warn |-> {}, threw |-> TRUE]

readConfigFile(file, name) ==
    IF file.kind = "absent"
    THEN [ok |-> FALSE, cfg |-> EmptyConfig, warn |-> {}, threw |-> FALSE]
    ELSE IF file.kind = "json" /\ SchemaOk(file.fields)
    THEN [ok |-> TRUE, cfg |-> configSchema(file.fields), warn |-> {}, threw |-> FALSE]
    ELSE [ok |-> FALSE, cfg |-> EmptyConfig, warn |-> {name}, threw |-> FALSE]

\* writeConfigFile: JSON.stringify drops undefined members
writeConfigFile(config) ==
    JsonFile([k \in FileKeys |-> IF k \in CONFIG_KEYS THEN config[k] ELSE Undef])

\* `if (value)`: set and not the empty string
Truthy(v) == IsStr(v) /\ Len(v[2]) > 0

\* getConfigFromEnv: entries of ENV_TO_CONFIG in order, a later entry for the
\* same key (GITHUB_TOKEN after GH_TOKEN) overwrites the earlier one
getConfigFromEnv(e) ==
    [k \in CONFIG_KEYS |->
        CASE k = "googleAiKey" ->
                IF Truthy(e["GOOGLE_AI_KEY"]) THEN e["GOOGLE_AI_KEY"] ELSE Undef
          [] k = "githubToken" ->
                IF Truthy(e["GITHUB_TOKEN"]) THEN e["GITHUB_TOKEN"]
                ELSE IF Truthy(e["GH_TOKEN"]) THEN e["GH_TOKEN"] ELSE Undef
          [] k = "linearApiKey" ->
                IF Truthy(e["LINEAR_API_KEY"]) THEN e["LINEAR_API_KEY"] ELSE Undef
          [] k = "linearEnabled" ->
                IF Truthy(e["LINEAR_ENABLED"])
                THEN IF toLowerCase(e["LINEAR_ENABLED"][2]) = <<"t", "r", "u", "e">>
                        \/ e["LINEAR_ENABLED"][2] = <<"1">>
                     THEN JsTrue ELSE JsFalse
                ELSE Undef]

\* getConfig: the first source that reads, whole
getConfigMutMerge(lf, gf, e) ==
    LET l == readConfigFile(lf, "local")
        g == readConfigFile(gf, "global")
        fromEnv == getConfigFromEnv(e)
        pick(k) == IF l.ok /\ lf.fields[k] # Undef THEN l.cfg[k]
                   ELSE IF g.ok /\ gf.fields[k] # Undef THEN g.cfg[k]
                   ELSE IF fromEnv[k] # Undef THEN fromEnv[k]
                   ELSE IF l.ok THEN l.cfg[k]
                   ELSE IF g.ok THEN g.cfg[k] ELSE Undef
    IN  [cfg |-> [k \in CONFIG_KEYS |-> pick(k)],
         src |-> IF l.ok THEN "local" ELSE IF g.ok THEN "global" ELSE "env",
         warn |-> l.warn \cup (IF l.ok THEN {} ELSE g.warn),
         threw |-> FALSE]

getConfig(lf, gf, e) ==
    LET l == readConfigFile(lf, "local")
        g == readConfigFile(gf, "global")
    IN  IF l.threw
        THEN [cfg |-> EmptyConfig, src |-> "none", warn |-> l.warn, threw |-> TRUE]
        ELSE IF l.ok
        THEN [cfg |-> l.cfg, src |-> "local", warn |-> l.warn, threw |-> FALSE]
        ELSE IF g.threw
        THEN [cfg |-> EmptyConfig, src |-> "none", warn |-> l.warn \cup g.warn, threw |-> TRUE]
        ELSE IF g.ok
        THEN [cfg |-> g.cfg, src |-> "global", warn |-> l.warn \cup g.warn, threw |-> FALSE]
        ELSE [cfg |-> getConfigFromEnv(e), src |-> "env",
              warn |-> l.warn \cup g.warn, threw |-> FALSE]

\* getConfigValue: a field of getConfig()
getConfigValueMutGlobalOnly(lf, gf, e, key) ==
    LET g == readConfigFile(gf, "global")
    IN  [val |-> IF g.ok THEN g.cfg[key] ELSE Undef, warn |-> g.warn, threw |-> g.threw]

getConfigValue(lf, gf, e, key) ==
    LET c == getConfig(lf, gf, e)
    IN  [val |-> c.cfg[key], warn |-> c.warn, threw |-> c.threw]

\* setConfigValue: read the global file (or start from {}), assign, write
setConfigValue(gf, key, value) ==
    LET r == readConfigFile(gf, "global")
        config == IF r.ok THEN r.cfg ELSE EmptyConfig
    IN  [file |-> writeConfigFile([config EXCEPT ![key] = value]),
         warn |-> r.warn, threw |-> r.threw]

\* setConfigValues: { ...existingConfig, ...values }; patch[k] = Undef means
\* the patch does not name k
setConfigValues(gf, patch) ==
    LET r == readConfigFile(gf, "global")
        existingConfig == IF r.ok THEN r.cfg ELSE EmptyConfig
    IN  [file |-> writeConfigFile(
                    [k \in CONFIG_KEYS |->
                        IF patch[k] # Undef THEN patch[k] ELSE existingConfig[k]]),
         warn |-> r.warn, threw |-> r.threw]

(***************************************************************************)
(* config/config-validation.ts                                             *)
(***************************************************************************)
\* isLinearEnabled: config.linearEnabled !== false
isLinearEnabledMutStrictTrue(config) ==
    IF config["linearEnabled"] = JsTrue THEN JsTrue ELSE JsFalse

isLinearEnabled(config) ==
    IF config["linearEnabled"] # JsFalse THEN JsTrue ELSE JsFalse

(***************************************************************************)
(* workflows/git.ts: pure branch helpers                                   *)
(***************************************************************************)
S_main == <<"m", "a", "i", "n">>
S_develop == <<"d", "e", "v", "e", "l", "o", "p">>
S_staging == <<"s", "t", "a", "g", "i", "n", "g">>
S_featureSlash == <<"f", "e", "a", "t", "u", "r", "e", "/">>
S_releaseSlash == <<"r", "e", "l", "e", "a", "s", "e", "/">>
S_hotfixSlash == <<"h", "o", "t", "f", "i", "x", "/">>

\* String.prototype.startsWith
startsWith(s, p) == Len(s) >= Len(p) /\ SubSeq(s, 1, Len(p)) = p

BranchTypes == {"feature", "release", "hotfix", "develop", "main", "staging", "unknown"}

getBranchTypeMutIgnoreCase(branch) ==
    LET b == toLowerCase(branch)
    IN  IF b = S_main THEN "main"
        ELSE IF b = S_develop THEN "develop"
        ELSE IF b = S_staging THEN "staging"
        ELSE IF startsWith(b, S_featureSlash) THEN "feature"
        ELSE IF startsWith(b, S_releaseSlash) THEN "release"
        ELSE IF startsWith(b, S_hotfixSlash) THEN "hotfix"
        ELSE "unknown"

getBranchType(branch) ==
    IF branch = S_main THEN "main"
    ELSE IF branch = S_develop THEN "develop"
    ELSE IF branch = S_staging THEN "staging"
    ELSE IF startsWith(branch, S_featureSlash) THEN "feature"
    ELSE IF startsWith(branch, S_releaseSlash) THEN "release"
    ELSE IF startsWith(branch, S_hotfixSlash) THEN "hotfix"
    ELSE "unknown"

getBaseBranchFor(type) ==
    CASE type = "feature" -> S_develop
      [] type = "hotfix" -> S_main
      [] type = "release" -> S_main
      [] OTHER -> S_main

PROTECTED_BRANCHES == {S_main, S_develop, S_staging}

isProtectedBranchMutIgnoreCase(branch) == toLowerCase(branch) \in PROTECTED_BRANCHES

isProtectedBranch(branch) == branch \in PROTECTED_BRANCHES

(***************************************************************************)
(* commands/config.ts                                                      *)
(***************************************************************************)
\* handleConfigSet: an unknown key exits 1 before any write; a known key is
\* written with the command-line string as its value
handleConfigSet(gf, key, value) ==
    IF key \notin CONFIG_KEYS
    THEN [exit |-> 1, wrote |-> FALSE, file |-> gf, warn |-> {}, threw |-> FALSE]
    ELSE LET w == setConfigValue(gf, key, Str(value))
         IN  [exit |-> 0, wrote |-> TRUE, file |-> w.file, warn |-> w.warn, threw |-> w.threw]

(***************************************************************************)
(* Bounds and inputs of the configuration specification                    *)
(***************************************************************************)
MaxWrites == 2

S_false == <<"f", "a", "l", "s", "e">>
S_TRUE == <<"T", "R", "U", "E">>

LocalFiles ==
    {AbsentFile, MalformedFile} \cup
    { JsonFile([k \in FileKeys |->
                  CASE k = "googleAiKey" -> g
                    [] k = "linearEnabled" -> le
                    [] OTHER -> Undef]) :
        g \in {Undef, Str(<<"L">>)},
        le \in {Undef, JsFalse, Str(S_false)} }

GlobalFiles ==
    {AbsentFile, MalformedFile} \cup
    { JsonFile([k \in FileKeys |->
                  CASE k = "googleAiKey" -> g
                    [] k = "linearEnabled" -> le
                    [] k = "extra" -> x
                    [] OTHER -> Undef]) :
        g \in {Undef, Str(<<"G">>)},
        le \in {Undef, JsTrue, JsFalse},
        x \in {Undef, Str(<<"X">>)} }

Envs ==
    { [k \in EnvKeys |->
          CASE k = "GOOGLE_AI_KEY" -> a
            [] k = "GH_TOKEN" -> t[1]
            [] k = "GITHUB_TOKEN" -> t[2]
            [] k = "LINEAR_ENABLED" -> le
            [] OTHER -> Undef] :
        a \in {Undef, Str(<<"E">>)},
        t \in {<<Undef, Undef>>, <<Str(<<"H">>), Str(<<"T">>)>>},
        le \in {Undef, Str(<<>>), Str(S_false), Str(S_TRUE), Str(<<"1">>)} }

SetInputs ==
    { <<"googleAiKey", Str(<<"S">>)>>, <<"linearApiKey", Str(<<"S">>)>>,
      <<"linearEnabled", JsFalse>>, <<"linearEnabled", JsTrue>> }

PatchInputs ==
    { [k \in CONFIG_KEYS |->
          IF k \in {"googleAiKey", "githubToken"} THEN Str(<<"S">>) ELSE Undef],
      [k \in CONFIG_KEYS |-> IF k = "linearEnabled" THEN JsFalse ELSE Undef] }

CliSetInputs ==
    { <<"linearEnabled", S_false>>, <<"githubToken", <<"S">>>>, <<"bogus", <<"S">>>> }

NoPatch == EmptyConfig
CfgOp(name, key, val, patch) == [name |-> name, key |-> key, val |-> val, patch |-> patch]

FlowIdle ==
    /\ impl = "part_007" /\ flowOp = "none" /\ pc = "idle" /\ runs = 0
    /\ head = <<>> /\ remoteHeads = {} /\ linearOn = FALSE /\ apiKey = FALSE
    /\ cwBranch = <<>> /\ issue = <<>> /\ renameRet = "none" /\ msg = "none"
    /\ committed = FALSE /\ err = "none" /\ forceRun = {} /\ moveRun = {}
    /\ deleteRun = {} /\ reported = {} /\ exitCode = "none"
    /\ stashed = FALSE /\ prs = {} /\ finBranch = <<>> /\ linearActs = {}

LinIdle ==
    /\ linIn = <<>>
    /\ linOut = <<>>

AiIdle ==
    /\ aiOp = "none" /\ aiPc = "idle" /\ aiInstance = FALSE /\ googleAiKey = FALSE
    /\ aiCalls = 0 /\ streamReqs = 0 /\ plainReqs = 0 /\ streamOut = "none"
    /\ plainOut = "none" /\ aiRet = "none"

CliIdle ==
    /\ isExiting = FALSE /\ cliPc = "main" /\ timerArmed = FALSE /\ signals = 0
    /\ cliExit = "none" /\ cliExitBy = "none" /\ cliErrors = {}

RelIdle ==
    /\ relPc = "idle" /\ relCurrent = <<>> /\ originHeads = {} /\ trackingRefs = {}
    /\ relDate = <<>> /\ relIncrement = 0 /\ relBranch = <<>> /\ relExit = "none"
    /\ relReported = "none"

TrkIdle ==
    /\ trkIssues = {} /\ trkTitles = <<>> /\ trkComments = <<>> /\ trkCreated = <<>>
    /\ trkTouched = {} /\ trkCalls = 0 /\ trkRet = [ret |-> "none"]

WtIdle ==
    /\ wtOp = "none" /\ wtPc = "idle" /\ wtCurrent = <<>> /\ wtDirty = FALSE
    /\ stashList = <<>> /\ stashedChanges = FALSE /\ popped = {} /\ popAttempted = FALSE
    /\ destructive = {} /\ answers = <<>> /\ wtExit = "none"

GitIdle ==
    /\ gitIn = <<>>
    /\ gitType = "none"
    /\ gitProt = "none"

InitConfig ==
    /\ localFile \in LocalFiles
    /\ globalFile \in GlobalFiles
    /\ env \in Envs
    /\ cfgOp = CfgOp("init", "", Undef, NoPatch)
    /\ cfgRet = EmptyConfig
    /\ cfgVal = Undef
    /\ cfgWarned = {}
    /\ cfgThrew = FALSE
    /\ cfgSrc = "none"
    /\ cfgWrites = 0
    /\ GitIdle
    /\ FlowIdle
    /\ LinIdle
    /\ AiIdle
    /\ CliIdle
    /\ RelIdle
    /\ TrkIdle
    /\ WtIdle

(***************************************************************************)
(* Operations of the configuration specification                           *)
(***************************************************************************)
GetConfig ==
    LET r == getConfig(localFile, globalFile, env)
    IN  /\ cfgOp' = CfgOp("getConfig", "", Undef, NoPatch)
        /\ cfgRet' = r.cfg
        /\ cfgSrc' = r.src
        /\ cfgVal' = Undef
        /\ cfgWarned' = r.warn
        /\ cfgThrew' = r.threw
        /\ UNCHANGED <<localFile, globalFile, env, cfgWrites, gitVars, flowVars, linVars, aiVars, cliVars, relVars, trkVars, wtVars>>

GetConfigValue ==
    \E key \in CONFIG_KEYS :
        LET r == getConfigValue(localFile, globalFile, env, key)
        IN  /\ cfgOp' = CfgOp("getConfigValue", key, Undef, NoPatch)
            /\ cfgRet' = EmptyConfig
            /\ cfgSrc' = "none"
            /\ cfgVal' = r.val
            /\ cfgWarned' = r.warn
            /\ cfgThrew' = r.threw
            /\ UNCHANGED <<localFile, globalFile, env, cfgWrites, gitVars, flowVars, linVars, aiVars, cliVars, relVars, trkVars, wtVars>>

IsLinearEnabled ==
    LET r == getConfig(localFile, globalFile, env)
    IN  /\ cfgOp' = CfgOp("isLinearEnabled", "", Undef, NoPatch)
        /\ cfgRet' = EmptyConfig
        /\ cfgSrc' = "none"
        /\ cfgVal' = isLinearEnabled(r.cfg)
        /\ cfgWarned' = r.warn
        /\ cfgThrew' = r.threw
        /\ UNCHANGED <<localFile, globalFile, env, cfgWrites, gitVars, flowVars, linVars, aiVars, cliVars, relVars, trkVars, wtVars>>

SetConfigValue ==
    /\ cfgWrites < MaxWrites
    /\ \E in \in SetInputs :
        LET w == setConfigValue(globalFile, in[1], in[2])
        IN  /\ cfgOp' = CfgOp("setConfigValue", in[1], in[2], NoPatch)
            /\ globalFile' = w.file
            /\ cfgWarned' = w.warn
            /\ cfgThrew' = w.threw
    /\ cfgRet' = EmptyConfig
    /\ cfgSrc' = "none"
    /\ cfgVal' = Undef
    /\ cfgWrites' = cfgWrites + 1
    /\ UNCHANGED <<localFile, env, gitVars, flowVars, linVars, aiVars, cliVars, relVars, trkVars, wtVars>>

SetConfigValues ==
    /\ cfgWrites < MaxWrites
    /\ \E patch \in PatchInputs :
        LET w == setConfigValues(globalFile, patch)
        IN  /\ cfgOp' = CfgOp("setConfigValues", "", Undef, patch)
            /\ globalFile' = w.file
            /\ cfgWarned' = w.warn
            /\ cfgThrew' = w.threw
    /\ cfgRet' = EmptyConfig
    /\ cfgSrc' = "none"
    /\ cfgVal' = Undef
    /\ cfgWrites' = cfgWrites + 1
    /\ UNCHANGED <<localFile, env, gitVars, flowVars, linVars, aiVars, cliVars, relVars, trkVars, wtVars>>

HandleConfigSet ==
    /\ cfgWrites < MaxWrites
    /\ \E in \in CliSetInputs :
        LET h == handleConfigSet(globalFile, in[1], in[2])
        IN  /\ cfgOp' = CfgOp(IF h.exit = 0 THEN "handleConfigSet" ELSE "handleConfigSetExit1",
                              in[1], Str(in[2]), NoPatch)
            /\ globalFile' = h.file
            /\ cfgWarned' = h.warn
            /\ cfgThrew' = h.threw
            /\ cfgWrites' = IF h.wrote THEN cfgWrites + 1 ELSE cfgWrites
    /\ cfgRet' = EmptyConfig
    /\ cfgSrc' = "none"
    /\ cfgVal' = Undef
    /\ UNCHANGED <<localFile, env, gitVars, flowVars, linVars, aiVars, cliVars, relVars, trkVars, wtVars>>

NextConfig ==
    \/ GetConfig
    \/ GetConfigValue
    \/ IsLinearEnabled
    \/ SetConfigValue
    \/ SetConfigValues
    \/ HandleConfigSet

SpecConfig == InitConfig /\ [][NextConfig]_vars

(***************************************************************************)
(* Properties of the configuration resolver                                *)
(***************************************************************************)
\* the file exists, is JSON and has the field types the schema asks for
Parses(file) ==
    /\ file.kind = "json"
    /\ \A k \in StringKeys : file.fields[k][1] \in {"undef", "str"}
    /\ file.fields["linearEnabled"][1] \in {"undef", "bool"}

\* what a parsing file says about key k
FieldOf(file, k) ==
    IF k = "linearEnabled" /\ file.fields[k] = Undef THEN JsTrue ELSE file.fields[k]

\* what the first usable source says about key k
WinningValue(k) ==
    IF Parses(localFile) THEN FieldOf(localFile, k)
    ELSE IF Parses(globalFile) THEN FieldOf(globalFile, k)
    ELSE getConfigFromEnv(env)[k]

\* C25: after a configuration write made through the tool with a valid key
\* (config set, setConfigValue, setConfigValues) the global config file still
\* validates against configSchema.
C25_GlobalFileStaysValid ==
    cfgOp.name \in {"setConfigValue", "setConfigValues", "handleConfigSet"} =>
        Parses(globalFile)

LinearEnabledEnvFalse ==
    /\ Truthy(env["LINEAR_ENABLED"])
    /\ toLowerCase(env["LINEAR_ENABLED"][2]) # <<"t", "r", "u", "e">>
    /\ env["LINEAR_ENABLED"][2] # <<"1">>

\* the first usable source gives an explicit false
WinningExplicitFalse ==
    IF Parses(localFile) THEN localFile.fields["linearEnabled"] = JsFalse
    ELSE IF Parses(globalFile) THEN globalFile.fields["linearEnabled"] = JsFalse
    ELSE LinearEnabledEnvFalse

LinearEnabledEnvTrue ==
    /\ Truthy(env["LINEAR_ENABLED"])
    /\ \/ toLowerCase(env["LINEAR_ENABLED"][2]) = <<"t", "r", "u", "e">>
       \/ env["LINEAR_ENABLED"][2] = <<"1">>

\* some source, winning or not, gives an explicit false / an explicit true
SomeSourceExplicitFalse ==
    \/ localFile.fields["linearEnabled"] = JsFalse
    \/ globalFile.fields["linearEnabled"] = JsFalse
    \/ (Truthy(env["LINEAR_ENABLED"]) /\ toLowerCase(env["LINEAR_ENABLED"][2]) = S_false)

SomeSourceExplicitTrue ==
    \/ localFile.fields["linearEnabled"] = JsTrue
    \/ globalFile.fields["linearEnabled"] = JsTrue
    \/ LinearEnabledEnvTrue

NamedInPatch(op, k) == op.key = k \/ op.patch[k] # Undef

\* C6: setConfigValue / setConfigValues leave the project-local file alone and
\* keep every field of the global file that the patch does not name.
C6_ReadMergeWrite ==
    [][ (cfgWrites' = cfgWrites + 1 /\ cfgOp'.name \in {"setConfigValue", "setConfigValues"}) =>
            /\ localFile' = localFile
            /\ \A k \in CONFIG_KEYS :
                  (globalFile.fields[k] # Undef /\ ~NamedInPatch(cfgOp', k)) =>
                      globalFile'.fields[k] = globalFile.fields[k] ]_vars

\* C7 as stated: getConfigValue(key) is the value the global file holds for key.
C7_GlobalFileOnly ==
    cfgOp.name = "getConfigValue" =>
        cfgVal = (IF Parses(globalFile) THEN FieldOf(globalFile, cfgOp.key) ELSE Undef)

\* C7 amended: getConfigValue(key) is the field key of getConfig(), i.e. of
\* the first usable source among local file, global file and environment.
C7_EffectiveConfigValue ==
    cfgOp.name = "getConfigValue" => cfgVal = WinningValue(cfgOp.key)

\* the local file answers although the global file holds another value
C7_Witness ==
    /\ cfgOp.name = "getConfigValue" /\ cfgOp.key = "googleAiKey"
    /\ Parses(localFile) /\ Parses(globalFile)
    /\ localFile.fields["googleAiKey"] = Str(<<"L">>)
    /\ globalFile.fields["googleAiKey"] = Str(<<"G">>)
    /\ cfgVal = Str(<<"L">>)

\* C8: a file holding malformed JSON is warned about and skipped: getConfig()
\* does not raise and answers from the next source in order.
C8_MalformedFallsThrough ==
    cfgOp.name = "getConfig" =>
        /\ ~cfgThrew
        /\ localFile.kind = "malformed" =>
              /\ "local" \in cfgWarned
              /\ cfgSrc = (IF Parses(globalFile) THEN "global" ELSE "env")
              /\ Parses(globalFile) =>
                    \A k \in CONFIG_KEYS : cfgRet[k] = FieldOf(globalFile, k)
        /\ (~Parses(localFile) /\ globalFile.kind = "malformed") =>
              /\ "global" \in cfgWarned
              /\ cfgSrc = "env"
              /\ cfgRet = getConfigFromEnv(env)

C8_Witness ==
    /\ cfgOp.name = "getConfig"
    /\ localFile.kind = "malformed"
    /\ Parses(globalFile) /\ globalFile.fields["googleAiKey"] = Str(<<"G">>)
    /\ cfgSrc = "global" /\ cfgRet["googleAiKey"] = Str(<<"G">>)
    /\ "local" \in cfgWarned

(***************************************************************************)
(* workflows/linear.ts: pure helpers                                       *)
(***************************************************************************)
Digits == {"0", "1", "2", "3", "4", "5", "6", "7", "8", "9"}
IsLetter(c) == \E i \in 1..26 : UpperChars[i] = c \/ LowerChars[i] = c
IsDigit(c) == c \in Digits

ToUpperChar(c) ==
    IF \E i \in 1..26 : LowerChars[i] = c
    THEN UpperChars[CHOOSE i \in 1..26 : LowerChars[i] = c]
    ELSE c

toUpperCase(s) == [i \in 1..Len(s) |-> ToUpperChar(s[i])]

\* the regular expression /\/([a-zA-Z]+-\d+)-/ matches with its slash at i,
\* its first dash at j and its closing dash at k
LinearMatch(s, i, j, k) ==
    /\ s[i] = "/"
    /\ j >= i + 2 /\ k >= j + 2
    /\ \A x \in (i + 1)..(j - 1) : IsLetter(s[x])
    /\ s[j] = "-"
    /\ \A x \in (j + 1)..(k - 1) : IsDigit(s[x])
    /\ s[k] = "-"

LinearMatchAt(s, i) == \E j, k \in 1..Len(s) : LinearMatch(s, i, j, k)

\* null is the empty sequence: a match is never empty
Null == <<>>

detectLinearIssue(branch) ==
    IF \E i \in 1..Len(branch) : LinearMatchAt(branch, i)
    THEN LET i == CHOOSE i \in 1..Len(branch) :
                    /\ LinearMatchAt(branch, i)
                    /\ \A h \in 1..(i - 1) : ~LinearMatchAt(branch, h)
             jk == CHOOSE jk \in (1..Len(branch)) \X (1..Len(branch)) :
                    LinearMatch(branch, i, jk[1], jk[2])
         IN  toUpperCase(SubSeq(branch, i + 1, jk[2] - 1))
    ELSE Null

hasLinearPattern(branch) == detectLinearIssue(branch) # Null

SlashPositions(s) == {i \in 1..Len(s) : s[i] = "/"}
Min(S) == CHOOSE x \in S : \A y \in S : x <= y
Max(S) == CHOOSE x \in S : \A y \in S : x >= y

\* .replace(/-+/g, "-")
RECURSIVE CollapseDashes(_)
CollapseDashes(s) ==
    IF Len(s) <= 1 THEN s
    ELSE IF s[1] = "-" /\ s[2] = "-" THEN CollapseDashes(Tail(s))
    ELSE <<s[1]>> \o CollapseDashes(Tail(s))

\* .replace(/^-|-$/g, "")
TrimDashes(s) ==
    LET t == IF Len(s) > 0 /\ s[1] = "-" THEN Tail(s) ELSE s
    IN  IF Len(t) > 0 /\ t[Len(t)] = "-" THEN SubSeq(t, 1, Len(t) - 1) ELSE t

S_feature == <<"f", "e", "a", "t", "u", "r", "e">>
S_work == <<"w", "o", "r", "k">>

generateLinearBranchNameMutKeepCase(issue_identifier, current_branch) ==
    LET slashes == SlashPositions(current_branch)
        \* /^([^/]+)\//
        username == IF slashes # {} /\ Min(slashes) > 1
                    THEN SubSeq(current_branch, 1, Min(slashes) - 1)
                    ELSE S_feature
        \* split("/").pop() || "work"
        last == IF slashes = {} THEN current_branch
                ELSE SubSeq(current_branch, Max(slashes) + 1, Len(current_branch))
        description_part == IF last = <<>> THEN S_work ELSE last
        \* .replace(/[^a-zA-Z0-9-]/g, "-")
        dashed == [i \in 1..Len(description_part) |->
                    IF IsLetter(description_part[i]) \/ IsDigit(description_part[i])
                       \/ description_part[i] = "-"
                    THEN description_part[i] ELSE "-"]
        clean_description == TrimDashes(CollapseDashes(dashed))
        linear_part == issue_identifier
    IN  username \o <<"/">> \o linear_part \o <<"-">> \o clean_description

generateLinearBranchName(issue_identifier, current_branch) ==
    LET slashes == SlashPositions(current_branch)
        \* /^([^/]+)\//
        username == IF slashes # {} /\ Min(slashes) > 1
                    THEN SubSeq(current_branch, 1, Min(slashes) - 1)
                    ELSE S_feature
        \* split("/").pop() || "work"
        last == IF slashes = {} THEN current_branch
                ELSE SubSeq(current_branch, Max(slashes) + 1, Len(current_branch))
        description_part == IF last = <<>> THEN S_work ELSE last
        \* .replace(/[^a-zA-Z0-9-]/g, "-")
        dashed == [i \in 1..Len(description_part) |->
                    IF IsLetter(description_part[i]) \/ IsDigit(description_part[i])
                       \/ description_part[i] = "-"
                    THEN description_part[i] ELSE "-"]
        clean_description == TrimDashes(CollapseDashes(dashed))
        linear_part == toLowerCase(issue_identifier)
    IN  username \o <<"/">> \o linear_part \o <<"-">> \o clean_description

(***************************************************************************)
(* The branch helpers applied to bounded inputs                            *)
(***************************************************************************)
NamePrefixes ==
    { <<>>, S_main, S_develop, S_staging,
      <<"M", "a", "i", "n">>, <<"M", "A", "I", "N">>,
      <<"D", "e", "v", "e", "l", "o", "p">>,
      <<"f", "e", "a", "t", "u", "r", "e">>, <<"F", "e", "a", "t", "u", "r", "e">>,
      <<"r", "e", "l", "e", "a", "s", "e">>, <<"h", "o", "t", "f", "i", "x">>,
      <<"u", "s", "e", "r">> }
NameSeparators == { <<>>, <<"/">> }
NameSuffixes == { <<>>, <<"x">>, S_main, <<"d", "e", "v", "-", "1", "-", "x">> }

BranchInputs ==
    { p \o sep \o suf : p \in NamePrefixes, sep \in NameSeparators, suf \in NameSuffixes }

CfgIdle ==
    /\ localFile = AbsentFile
    /\ globalFile = AbsentFile
    /\ env = [k \in EnvKeys |-> Undef]
    /\ cfgOp = CfgOp("init", "", Undef, NoPatch)
    /\ cfgRet = EmptyConfig
    /\ cfgVal = Undef
    /\ cfgWarned = {}
    /\ cfgThrew = FALSE
    /\ cfgSrc = "none"
    /\ cfgWrites = 0

InitGit ==
    /\ gitIn \in BranchInputs
    /\ gitType = "none"
    /\ gitProt = "none"
    /\ CfgIdle
    /\ FlowIdle
    /\ LinIdle
    /\ AiIdle
    /\ CliIdle
    /\ RelIdle
    /\ TrkIdle
    /\ WtIdle

CallGetBranchType ==
    /\ gitType = "none"
    /\ gitType' = getBranchType(gitIn)
    /\ UNCHANGED <<gitIn, gitProt, cfgVars, flowVars, linVars, aiVars, cliVars, relVars, trkVars, wtVars>>

CallIsProtectedBranch ==
    /\ gitProt = "none"
    /\ gitProt' = (IF isProtectedBranch(gitIn) THEN "true" ELSE "false")
    /\ UNCHANGED <<gitIn, gitType, cfgVars, flowVars, linVars, aiVars, cliVars, relVars, trkVars, wtVars>>

NextGit ==
    \/ CallGetBranchType
    \/ CallIsProtectedBranch

SpecGit == InitGit /\ [][NextGit]_vars

(***************************************************************************)
(* Properties of the branch helpers                                        *)
(***************************************************************************)
\* s = p followed by something
HasPrefix(s, p) == \E n \in 0..Len(s) : SubSeq(s, 1, n) = p

TrunkNames == { S_main, S_develop, S_staging }

\* C9: getBranchType maps every string to exactly one of the seven tags: the
\* exact names main / develop / staging to themselves, otherwise the prefixes
\* feature/, release/, hotfix/, and anything else (other case, no slash) to
\* unknown.
C9_BranchTypeTotal ==
    gitType # "none" =>
        /\ gitType \in BranchTypes
        /\ gitType = "main" <=> gitIn = S_main
        /\ gitType = "develop" <=> gitIn = S_develop
        /\ gitType = "staging" <=> gitIn = S_staging
        /\ gitType = "feature" <=> HasPrefix(gitIn, S_featureSlash)
        /\ gitType = "release" <=> HasPrefix(gitIn, S_releaseSlash)
        /\ gitType = "hotfix" <=> HasPrefix(gitIn, S_hotfixSlash)
        /\ gitType = "unknown" <=>
              /\ gitIn \notin TrunkNames
              /\ ~HasPrefix(gitIn, S_featureSlash)
              /\ ~HasPrefix(gitIn, S_releaseSlash)
              /\ ~HasPrefix(gitIn, S_hotfixSlash)

\* "Feature/x" differs from a feature branch only in case: unknown
C9_Witness ==
    /\ gitIn = <<"F", "e", "a", "t", "u", "r", "e", "/", "x">>
    /\ gitType = "unknown"

\* C10: isProtectedBranch(b) is true exactly for the literal strings main,
\* develop and staging; Main, MAIN and every prefixed branch are unprotected.
C10_ProtectedExactSet ==
    gitProt # "none" => (gitProt = "true" <=> gitIn \in TrunkNames)

C10_Witness ==
    /\ gitIn = <<"M", "A", "I", "N">>
    /\ gitProt = "false"

(***************************************************************************)
(* Workflow orchestration: the repository and the inputs of a session      *)
(***************************************************************************)
S_releaseBranch == S_releaseSlash \o <<"2", "0", "2", "5", "0", "1", "0", "6", ".", "1">>
S_linearBranch == <<"u", "/", "d", "e", "v", "-", "7", "-", "x">>
S_wip == <<"w", "i", "p">>
S_DEV1 == <<"D", "E", "V", "-", "1">>

FlowBranches ==
    { S_main, S_develop, S_staging,
      S_featureSlash \o <<"x">>, S_hotfixSlash \o <<"x">>,
      S_releaseBranch, S_linearBranch, S_wip }

CommitImpls == {"part_007", "commit-workflow.ts"}

InitFlow ==
    /\ impl \in CommitImpls
    /\ flowOp = "none" /\ pc = "idle" /\ runs = 0
    /\ head \in FlowBranches
    /\ remoteHeads \in {R \cup {S_develop} : R \in SUBSET {S_main, S_staging, head}}
    /\ linearOn \in BOOLEAN
    /\ apiKey \in BOOLEAN
    /\ cwBranch = <<>> /\ issue = Null /\ renameRet = "none" /\ msg = "none"
    /\ committed = FALSE /\ err = "none"
    /\ forceRun = {} /\ moveRun = {} /\ deleteRun = {}
    /\ reported = {} /\ exitCode = "none"
    /\ stashed = FALSE /\ prs = {} /\ finBranch = <<>> /\ linearActs = {}
    /\ CfgIdle
    /\ GitIdle
    /\ LinIdle
    /\ AiIdle
    /\ CliIdle
    /\ RelIdle
    /\ TrkIdle
    /\ WtIdle

\* main() of cli.ts dispatches one workflow per process
Begin(name) ==
    /\ pc = "idle"
    /\ runs = 0
    /\ runs' = 1
    /\ flowOp' = name

\* process.exit(code)
Exit(code, shown) ==
    /\ pc' = "exited"
    /\ exitCode' = code
    /\ reported' = shown

FinishOps == {"finishFeature", "finishRelease", "finishHotfix"}

\* the positions of processCommit from which it returns
CommitReturnPcs == {"pushPrompt", "divergedMenu", "forcePrompt", "catch"}

\* the workflow function returns to its caller: commitWorkflow to
\* handleUncommittedChanges when a finish workflow called it, else to cli.ts
Return(shown) ==
    /\ pc' = IF flowOp \in FinishOps /\ pc \in CommitReturnPcs
             THEN "afterUncommitted"
             ELSE "returned"
    /\ exitCode' = "none"
    /\ reported' = shown

Goto(label, shown) ==
    /\ pc' = label
    /\ exitCode' = "none"
    /\ reported' = shown

(***************************************************************************)
(* commit-workflow.ts: commitWorkflow                                      *)
(***************************************************************************)
\* commitWorkflow up to the capture of current_branch; trees are the states
\* git status can report after git add .
CommitWorkflowEntry(trees, shown) ==
    \E tree \in trees, should_stage, addOk \in BOOLEAN :
        IF tree = "clean"
        THEN Exit("0", shown \cup {"No changes detected"}) /\ cwBranch' = <<>>
        ELSE IF tree = "unstaged" /\ ~should_stage
        THEN Exit("0", shown \cup {"Please stage your changes first"}) /\ cwBranch' = <<>>
        ELSE IF tree = "unstaged" /\ ~addOk
        THEN Exit("1", shown \cup {"Failed to stage changes"}) /\ cwBranch' = <<>>
        ELSE Goto("linear", shown) /\ cwBranch' = head

\* cli.ts runs commitWorkflow
StartCommitWorkflow ==
    /\ Begin("commit")
    /\ issue' = Null /\ renameRet' = "none" /\ msg' = "none"
    /\ committed' = FALSE /\ err' = "none"
    /\ CommitWorkflowEntry({"clean", "unstaged", "staged"}, {})
    /\ UNCHANGED <<impl, head, remoteHeads, linearOn, apiKey, forceRun, moveRun, deleteRun>>
    /\ UNCHANGED <<cfgVars, gitVars, finVars, linearActs, linVars, aiVars, cliVars, relVars, trkVars, wtVars>>

\* the condition under which the Linear issue is offered
LinearOffered ==
    IF impl = "part_007"
    THEN ~hasLinearPattern(cwBranch) /\ linearOn
    ELSE ~hasLinearPattern(cwBranch)

\* commitWorkflow from the Linear check to the creation of the issue;
\* confirmLinearMetadata calls fetchLinearLabels when a label is to be chosen
LinearIssueStep ==
    /\ pc = "linear"
    /\ IF ~LinearOffered
       THEN Goto("describe", {}) /\ issue' = issue /\ linearActs' = linearActs
       ELSE \E create_linear_issue, linear_content, labels, confirmed_metadata,
               created_issue \in BOOLEAN,
               action \in {"create", "edit", "skip"} :
            LET shown == {"No Linear issue detected in branch name"}
                offered == linearActs \cup {"offerCreate"}
                confirming == offered \cup (IF labels THEN {"fetchLinearLabels"} ELSE {})
            IN  IF ~create_linear_issue
                THEN Goto("describe", shown) /\ issue' = issue /\ linearActs' = offered
                ELSE IF ~apiKey
                THEN Goto("describe", shown \cup {"Linear API key not configured"})
                     /\ issue' = issue /\ linearActs' = offered
                ELSE IF ~linear_content \/ action = "skip"
                THEN Goto("describe", shown) /\ issue' = issue /\ linearActs' = offered
                ELSE IF ~confirmed_metadata
                THEN Goto("describe", shown \cup {"Linear issue creation cancelled by user"})
                     /\ issue' = issue /\ linearActs' = confirming
                ELSE IF ~created_issue
                THEN Goto("describe", shown) /\ issue' = issue
                     /\ linearActs' = confirming \cup {"createLinearIssue"}
                ELSE Goto("rename", shown \cup {"Linear issue created"}) /\ issue' = S_DEV1
                     /\ linearActs' = confirming \cup {"createLinearIssue"}
    /\ UNCHANGED <<impl, flowOp, runs, head, remoteHeads, linearOn, apiKey, cwBranch,
                   renameRet, msg, committed, err, forceRun, moveRun, deleteRun>>
    /\ UNCHANGED <<cfgVars, gitVars, finVars, linVars, aiVars, cliVars, relVars, trkVars, wtVars>>

(***************************************************************************)
(* linear.ts: renameBranchToLinearPattern, as commitWorkflow calls it      *)
(***************************************************************************)
RenameBranchToLinearPattern ==
    /\ pc = "rename"
    /\ LET new_branch_name == generateLinearBranchName(issue, cwBranch)
           current_branch == cwBranch
       IN  \E moved, lsOk, deleteOk, pushOk, pushAgainOk \in BOOLEAN :
           /\ moveRun' = moveRun \cup {head}
           /\ IF ~moved
              THEN \* git branch -m failed: the outer catch
                   /\ renameRet' = "false"
                   /\ UNCHANGED <<head, remoteHeads, deleteRun>>
              ELSE /\ head' = new_branch_name
                   /\ IF lsOk /\ current_branch \in remoteHeads
                      THEN /\ deleteRun' = deleteRun \cup {current_branch}
                           /\ IF deleteOk /\ pushOk
                              THEN /\ remoteHeads' = (remoteHeads \ {current_branch})
                                                        \cup {new_branch_name}
                                   /\ renameRet' = "true"
                              ELSE \* the inner catch pushes the new branch
                                   LET left == IF deleteOk
                                               THEN remoteHeads \ {current_branch}
                                               ELSE remoteHeads
                                   IN  IF pushAgainOk
                                       THEN /\ remoteHeads' = left \cup {new_branch_name}
                                            /\ renameRet' = "true"
                                       ELSE /\ remoteHeads' = left
                                            /\ renameRet' = "false"
                      ELSE /\ deleteRun' = deleteRun
                           /\ IF pushAgainOk
                              THEN /\ remoteHeads' = remoteHeads \cup {new_branch_name}
                                   /\ renameRet' = "true"
                              ELSE /\ remoteHeads' = remoteHeads
                                   /\ renameRet' = "false"
    /\ Goto("describe", {IF renameRet' = "true"
                                       THEN "Branch renamed and pushed successfully"
                                       ELSE "Failed to rename branch"})
    /\ UNCHANGED <<impl, flowOp, runs, linearOn, apiKey, cwBranch, issue, msg, committed,
                   err, forceRun>>
    /\ linearActs' = linearActs \cup {"renameBranch"}
    /\ UNCHANGED <<cfgVars, gitVars, finVars, linVars, aiVars, cliVars, relVars, trkVars, wtVars>>

\* commitWorkflow: the hint, generateCommitMessage and the manual fallback
GenerateMessage ==
    /\ pc = "describe"
    /\ \E generated_commit, should_manual \in BOOLEAN :
        IF generated_commit
        THEN Goto("loop", {}) /\ msg' = "generated"
        ELSE IF should_manual
        THEN Goto("processCommit", {"Failed to generate commit message"})
             /\ msg' = "manual"
        ELSE Exit("1", {"Failed to generate commit message"}) /\ msg' = msg
    /\ UNCHANGED <<impl, flowOp, runs, head, remoteHeads, linearOn, apiKey, cwBranch, issue,
                   renameRet, committed, err, forceRun, moveRun, deleteRun>>
    /\ UNCHANGED <<cfgVars, gitVars, finVars, linearActs, linVars, aiVars, cliVars, relVars, trkVars, wtVars>>

\* commitWorkflow: one round of the commit / edit / refine / cancel loop
\* generated_commit after a refine: the retry, or what it was when the retry is null
RefinedCommitMutDropOnFailure(retry, generated_commit) ==
    IF retry THEN "refined" ELSE "none"
RefinedCommit(retry, generated_commit) ==
    IF retry THEN "refined" ELSE generated_commit

MessageLoop ==
    /\ pc = "loop"
    /\ \E action \in {"commit", "edit", "refine", "cancel"}, retry \in BOOLEAN :
        CASE action = "commit" -> Goto("processCommit", {}) /\ msg' = msg
          [] action = "edit" -> Goto("processCommit", {}) /\ msg' = "edited"
          [] action = "refine" ->
                /\ Goto("loop", IF retry THEN {}
                                ELSE {"Failed to regenerate commit message"})
                /\ msg' = RefinedCommit(retry, msg)
          [] action = "cancel" -> Exit("0", {"Commit cancelled"}) /\ msg' = msg
    /\ UNCHANGED <<impl, flowOp, runs, head, remoteHeads, linearOn, apiKey, cwBranch, issue,
                   renameRet, committed, err, forceRun, moveRun, deleteRun>>
    /\ UNCHANGED <<cfgVars, gitVars, finVars, linearActs, linVars, aiVars, cliVars, relVars, trkVars, wtVars>>

(***************************************************************************)
(* commit-workflow.ts: processCommit                                       *)
(***************************************************************************)
\* what a failing git command can put into the error text: a text naming a
\* hook (husky, pre-commit, lint-staged, eslint) or any other text
ErrorKinds == {"hook", "other"}

\* git add . and git commit -m
ProcessCommit ==
    /\ pc = "processCommit"
    /\ \E ok \in BOOLEAN, kind \in ErrorKinds :
        IF ok
        THEN Goto("pushPrompt", {"Changes committed successfully"})
             /\ committed' = TRUE /\ err' = err
        ELSE Goto("catch", {}) /\ committed' = committed /\ err' = kind
    /\ UNCHANGED <<impl, flowOp, runs, head, remoteHeads, linearOn, apiKey, cwBranch, issue,
                   renameRet, msg, forceRun, moveRun, deleteRun>>
    /\ UNCHANGED <<cfgVars, gitVars, finVars, linearActs, linVars, aiVars, cliVars, relVars, trkVars, wtVars>>

\* "Push to origin?" and git push origin <branch>
PushPrompt ==
    /\ pc = "pushPrompt"
    /\ \E should_push \in BOOLEAN, result \in {"ok", "rejected", "failed"} :
        IF ~should_push
        THEN Return({}) /\ remoteHeads' = remoteHeads
        ELSE CASE result = "ok" ->
                    /\ Return({"Changes pushed successfully"})
                    /\ remoteHeads' = remoteHeads \cup {head}
               [] result = "rejected" ->
                    /\ Goto("divergedMenu", {"Failed to push changes"})
                    /\ remoteHeads' = remoteHeads
               [] result = "failed" ->
                    /\ Goto("forcePrompt", {"Failed to push changes"})
                    /\ remoteHeads' = remoteHeads
    /\ UNCHANGED <<impl, flowOp, runs, head, linearOn, apiKey, cwBranch, issue, renameRet,
                   msg, committed, err, forceRun, moveRun, deleteRun>>
    /\ UNCHANGED <<cfgVars, gitVars, finVars, linearActs, linVars, aiVars, cliVars, relVars, trkVars, wtVars>>

\* the force branch of either prompt: the guard of part_007, then
\* git push --force origin <branch>, whose failure reaches the outer catch
ForcePush(site) ==
    IF impl = "part_007" /\ isProtectedBranch(head)
    THEN /\ Return({"CRITICAL: Cannot force push to protected branch"})
         /\ UNCHANGED <<forceRun, remoteHeads, err>>
    ELSE /\ forceRun' = forceRun \cup {[site |-> site, ref |-> head]}
         /\ \E ok \in BOOLEAN, kind \in ErrorKinds :
             IF ok
             THEN /\ Return({"Changes force-pushed successfully"})
                  /\ remoteHeads' = remoteHeads \cup {head}
                  /\ err' = err
             ELSE /\ Goto("catch", {})
                  /\ remoteHeads' = remoteHeads
                  /\ err' = kind

\* "Remote has changes. What would you like to do?"
DivergedMenu ==
    /\ pc = "divergedMenu"
    /\ \E action \in {"pull", "rebase", "force", "skip"}, ok \in BOOLEAN :
        CASE action = "pull" ->
                /\ IF ok
                   THEN Return({"Changes pushed successfully"})
                        /\ remoteHeads' = remoteHeads \cup {head}
                   ELSE Return({"Failed to pull and push"})
                        /\ remoteHeads' = remoteHeads
                /\ UNCHANGED <<forceRun, err>>
          [] action = "rebase" ->
                /\ IF ok
                   THEN Return({"Changes pushed successfully"})
                        /\ remoteHeads' = remoteHeads \cup {head}
                   ELSE Return({"Failed to rebase"})
                        /\ remoteHeads' = remoteHeads
                /\ UNCHANGED <<forceRun, err>>
          [] action = "force" -> ForcePush("processCommit.menu")
          [] action = "skip" ->
                /\ Return({})
                /\ UNCHANGED <<forceRun, remoteHeads, err>>
    /\ UNCHANGED <<impl, flowOp, runs, head, linearOn, apiKey, cwBranch, issue, renameRet,
                   msg, committed, moveRun, deleteRun>>
    /\ UNCHANGED <<cfgVars, gitVars, finVars, linearActs, linVars, aiVars, cliVars, relVars, trkVars, wtVars>>

\* "Force push?"
ForcePrompt ==
    /\ pc = "forcePrompt"
    /\ \E force_push \in BOOLEAN :
        IF force_push
        THEN ForcePush("processCommit.confirm")
        ELSE Return({}) /\ UNCHANGED <<forceRun, remoteHeads, err>>
    /\ UNCHANGED <<impl, flowOp, runs, head, linearOn, apiKey, cwBranch, issue, renameRet,
                   msg, committed, moveRun, deleteRun>>
    /\ UNCHANGED <<cfgVars, gitVars, finVars, linearActs, linVars, aiVars, cliVars, relVars, trkVars, wtVars>>

\* the catch block around processCommit's body
CommitCatch ==
    /\ pc = "catch"
    /\ IF impl = "part_007" /\ err = "hook"
       THEN \E action \in {"fix", "skip", "cancel"},
               confirm_skip, commitOk, should_push, pushOk \in BOOLEAN :
            LET shown == {"Commit failed due to pre-commit hook"}
            IN  CASE action = "fix" ->
                        Exit("1", shown) /\ UNCHANGED <<committed, remoteHeads>>
                  [] action = "cancel" ->
                        Exit("0", shown \cup {"Commit cancelled"})
                        /\ UNCHANGED <<committed, remoteHeads>>
                  [] action = "skip" /\ ~confirm_skip ->
                        Exit("0", shown \cup {"Commit cancelled"})
                        /\ UNCHANGED <<committed, remoteHeads>>
                  [] action = "skip" /\ confirm_skip ->
                        \* git commit --no-verify has nothing to commit once
                        \* the commit has been made
                        IF commitOk /\ ~committed
                        THEN /\ Return(shown \cup {"Changes committed (hooks skipped)"})
                             /\ committed' = TRUE
                             /\ remoteHeads' = IF should_push /\ pushOk
                                               THEN remoteHeads \cup {head}
                                               ELSE remoteHeads
                        ELSE /\ Exit("1", shown \cup {"Failed to commit even with --no-verify"})
                             /\ UNCHANGED <<committed, remoteHeads>>
       ELSE /\ Exit("1", {"Failed to commit changes"})
            /\ UNCHANGED <<committed, remoteHeads>>
    /\ UNCHANGED <<impl, flowOp, runs, head, linearOn, apiKey, cwBranch, issue, renameRet,
                   msg, err, forceRun, moveRun, deleteRun>>
    /\ UNCHANGED <<cfgVars, gitVars, finVars, linearActs, linVars, aiVars, cliVars, relVars, trkVars, wtVars>>

(***************************************************************************)
(* release-workflow.ts: stageRelease                                       *)
(***************************************************************************)
StageRelease ==
    /\ Begin("stageRelease")
    /\ cwBranch' = <<>> /\ issue' = Null /\ renameRet' = "none" /\ msg' = "none"
    /\ committed' = FALSE /\ err' = "none"
    /\ IF ~startsWith(head, S_releaseSlash)
       THEN /\ Exit("1", {"You're not on a release branch"})
            /\ UNCHANGED <<forceRun, remoteHeads>>
       ELSE \* git push -u origin <current_branch>:staging --force
            /\ forceRun' = forceRun \cup {[site |-> "stageRelease", ref |-> S_staging]}
            /\ \E ok \in BOOLEAN :
                IF ok
                THEN /\ Return({"Release pushed to staging"})
                     /\ remoteHeads' = remoteHeads \cup {S_staging}
                ELSE /\ Exit("1", {"Failed to push to staging"})
                     /\ remoteHeads' = remoteHeads
    /\ UNCHANGED <<impl, head, linearOn, apiKey, moveRun, deleteRun>>
    /\ UNCHANGED <<cfgVars, gitVars, finVars, linearActs, linVars, aiVars, cliVars, relVars, trkVars, wtVars>>

(***************************************************************************)
(* feature-workflow.ts, release-workflow.ts, hotfix-workflow.ts: the       *)
(* finish workflows, with pr-shared.ts                                     *)
(***************************************************************************)
FinishPrefix(name) ==
    CASE name = "finishFeature" -> S_featureSlash
      [] name = "finishRelease" -> S_releaseSlash
      [] name = "finishHotfix" -> S_hotfixSlash

\* the base_branch each finish workflow hands to createPullRequest
FinishBaseMutAllMain(name) == S_main

FinishBase(name) ==
    CASE name = "finishFeature" -> S_develop
      [] name = "finishRelease" -> S_main
      [] name = "finishHotfix" -> S_main

\* finishFeature and the hotfix-workflow of part_009 read the branch again
\* after handleUncommittedChanges; finishRelease and hotfix-workflow.ts keep
\* the name they read first
RefreshesBranch(name) ==
    \/ name = "finishFeature"
    \/ name = "finishHotfix" /\ impl = "part_007"

\* cli.ts reads the GitHub token, the workflow checks the branch prefix and
\* runs handleUncommittedChanges
StartFinish(name) ==
    /\ Begin(name)
    /\ issue' = Null /\ renameRet' = "none" /\ msg' = "none"
    /\ committed' = FALSE /\ err' = "none"
    /\ \E ghToken, stashOk \in BOOLEAN, status \in {"clean", "dirty", "error"},
          action \in {"commit", "stash", "abort"} :
        IF ~ghToken
        THEN /\ Exit("1", {"GitHub token not configured"})
             /\ cwBranch' = <<>> /\ finBranch' = <<>> /\ stashed' = stashed
        ELSE IF ~startsWith(head, FinishPrefix(name))
        THEN /\ Exit("1", {"You're not on the workflow's branch"})
             /\ cwBranch' = <<>> /\ finBranch' = head /\ stashed' = stashed
        ELSE /\ finBranch' = head
             /\ CASE status = "error" ->
                        /\ Exit("1", {"Failed to check git status"})
                        /\ cwBranch' = <<>> /\ stashed' = stashed
                  [] status = "clean" ->
                        /\ Goto("afterUncommitted", {"No uncommitted changes"})
                        /\ cwBranch' = <<>> /\ stashed' = stashed
                  [] status = "dirty" /\ action = "abort" ->
                        /\ Exit("0", {"You have uncommitted changes"})
                        /\ cwBranch' = <<>> /\ stashed' = stashed
                  [] status = "dirty" /\ action = "stash" ->
                        IF stashOk
                        THEN /\ Goto("afterUncommitted",
                                     {"You have uncommitted changes", "Changes stashed"})
                             /\ cwBranch' = <<>> /\ stashed' = TRUE
                        ELSE /\ Exit("1", {"You have uncommitted changes",
                                           "Failed to check git status"})
                             /\ cwBranch' = <<>> /\ stashed' = stashed
                  [] status = "dirty" /\ action = "commit" ->
                        /\ CommitWorkflowEntry({"unstaged", "staged"},
                                               {"You have uncommitted changes"})
                        /\ stashed' = stashed
    /\ UNCHANGED <<impl, head, remoteHeads, linearOn, apiKey, forceRun, moveRun, deleteRun,
                   prs, linearActs>>
    /\ UNCHANGED <<cfgVars, gitVars, linVars, aiVars, cliVars, relVars, trkVars, wtVars>>

StartFinishFeature == StartFinish("finishFeature")
StartFinishRelease == StartFinish("finishRelease")
StartFinishHotfix == StartFinish("finishHotfix")

\* the refresh of current_branch and pushBranchIfNeeded(current_branch);
\* git ls-remote --heads without --exit-code succeeds whenever origin answers
FinishPush ==
    /\ pc = "afterUncommitted"
    /\ flowOp \in FinishOps
    /\ LET current_branch == IF RefreshesBranch(flowOp) THEN head ELSE finBranch
       IN  /\ finBranch' = current_branch
           /\ \E remote_exists, ahead, should_push, pushed \in BOOLEAN :
               LET pushOk == pushed /\ current_branch = head
               IN  IF ~remote_exists
                   THEN IF ~should_push
                        THEN /\ Exit("1", {"Cannot create PR without pushing branch"})
                             /\ remoteHeads' = remoteHeads
                        ELSE IF pushOk
                        THEN /\ Goto("analyze", {"Branch pushed successfully"})
                             /\ remoteHeads' = remoteHeads \cup {current_branch}
                        ELSE /\ Exit("1", {"Failed to push branch"})
                             /\ remoteHeads' = remoteHeads
                   ELSE IF current_branch \in remoteHeads /\ ahead
                   THEN IF ~should_push
                        THEN /\ Exit("1", {"Cannot create PR without pushing all commits"})
                             /\ remoteHeads' = remoteHeads
                        ELSE IF pushOk
                        THEN /\ Goto("analyze", {"Commits pushed successfully"})
                             /\ remoteHeads' = remoteHeads
                        ELSE /\ Exit("1", {"Failed to push commits"})
                             /\ remoteHeads' = remoteHeads
                   ELSE \* up to date, or the comparison failed and the branch
                        \* is assumed to be pushed
                        /\ Goto("analyze", {"Branch taken as pushed"})
                        /\ remoteHeads' = remoteHeads
    /\ UNCHANGED <<impl, flowOp, runs, head, linearOn, apiKey, cwBranch, issue, renameRet,
                   msg, committed, err, forceRun, moveRun, deleteRun, stashed, prs,
                   linearActs>>
    /\ UNCHANGED <<cfgVars, gitVars, linVars, aiVars, cliVars, relVars, trkVars, wtVars>>

\* from the fetch of the base branch to the decision to create the PR
FinishAnalyze ==
    /\ pc = "analyze"
    /\ \E countOk, has_commits, generated_content, proceed \in BOOLEAN :
        IF ~countOk
        THEN \* git rev-list throws: main's catch
             Exit("1", {"An error occurred"})
        ELSE IF ~has_commits
        THEN Exit("0", {"No commits to create PR from"})
        ELSE IF flowOp = "finishFeature"
        THEN IF ~generated_content
             THEN IF proceed
                  THEN Goto("createPR", {"Failed to generate PR content"})
                  ELSE Exit("1", {"Failed to generate PR content"})
             ELSE IF proceed
                  THEN Goto("createPR", {})
                  ELSE Exit("0", {"PR creation cancelled"})
        ELSE IF ~generated_content \/ proceed
             THEN Goto("createPR", {})
             ELSE Exit("0", {"PR creation cancelled"})
    /\ UNCHANGED <<impl, flowOp, runs, head, remoteHeads, linearOn, apiKey, cwBranch, issue,
                   renameRet, msg, committed, err, forceRun, moveRun, deleteRun, linearActs>>
    /\ UNCHANGED <<cfgVars, gitVars, finVars, linVars, aiVars, cliVars, relVars, trkVars, wtVars>>

\* what createPullRequest can come to: gh missing, gh pr create failing, the
\* PR created and its URL returned, the PR created and gh pr view --web
\* failing, the PR created and no URL found in the output
PrOutcomes == {"noGh", "failed", "url", "openFailed", "noUrl"}
PrOpened(outcome) == outcome \in {"url", "openFailed", "noUrl"}
PrExits(outcome) == outcome \in {"noGh", "failed", "openFailed"}

PullRequest(base, primary) ==
    [base |-> base, head |-> head, op |-> flowOp, primary |-> primary]

\* createPullRequest with the workflow's base branch, and what the workflow
\* does with its result
FinishCreatePR ==
    /\ pc = "createPR"
    /\ \E outcome \in PrOutcomes :
        /\ prs' = IF PrOpened(outcome)
                  THEN prs \cup {PullRequest(FinishBase(flowOp), TRUE)}
                  ELSE prs
        /\ IF PrExits(outcome)
           THEN Exit("1", {"Failed to create pull request"})
           ELSE IF outcome = "url"
           THEN Goto(CASE flowOp = "finishFeature" -> "link"
                       [] flowOp = "finishHotfix" -> "backport"
                       [] flowOp = "finishRelease" -> "restoreOnly",
                     {"Pull request created"})
           ELSE CASE flowOp = "finishFeature" ->
                        Goto("restoreOnly", {"Failed to create PR"})
                  [] flowOp = "finishHotfix" ->
                        Exit("1", {"Failed to create PR"})
                  [] flowOp = "finishRelease" ->
                        Goto("restoreOnly", {})
    /\ UNCHANGED <<impl, flowOp, runs, head, remoteHeads, linearOn, apiKey, cwBranch, issue,
                   renameRet, msg, committed, err, forceRun, moveRun, deleteRun, stashed,
                   finBranch, linearActs>>
    /\ UNCHANGED <<cfgVars, gitVars, linVars, aiVars, cliVars, relVars, trkVars, wtVars>>

\* finishFeature: link the PR to the Linear issue of the branch
FinishLink ==
    /\ pc = "link"
    /\ linearActs' = IF linearOn /\ detectLinearIssue(finBranch) # Null /\ apiKey
                     THEN linearActs \cup {"linkLinearIssueToPR"}
                     ELSE linearActs
    /\ Goto("cleanup", {})
    /\ UNCHANGED <<impl, flowOp, runs, head, remoteHeads, linearOn, apiKey, cwBranch, issue,
                   renameRet, msg, committed, err, forceRun, moveRun, deleteRun>>
    /\ UNCHANGED <<cfgVars, gitVars, finVars, linVars, aiVars, cliVars, relVars, trkVars, wtVars>>

\* finishHotfix: the optional second PR to develop
FinishBackport ==
    /\ pc = "backport"
    /\ \E should_backport \in BOOLEAN, outcome \in PrOutcomes :
        IF ~should_backport
        THEN Goto("cleanup", {}) /\ prs' = prs
        ELSE /\ prs' = IF PrOpened(outcome)
                       THEN prs \cup {PullRequest(S_develop, FALSE)}
                       ELSE prs
             /\ IF PrExits(outcome)
                THEN Exit("1", {"Failed to create pull request"})
                ELSE Goto("cleanup", {})
    /\ UNCHANGED <<impl, flowOp, runs, head, remoteHeads, linearOn, apiKey, cwBranch, issue,
                   renameRet, msg, committed, err, forceRun, moveRun, deleteRun, stashed,
                   finBranch, linearActs>>
    /\ UNCHANGED <<cfgVars, gitVars, linVars, aiVars, cliVars, relVars, trkVars, wtVars>>

\* restoreStashedChangesIfNeeded, then for feature and hotfix the switch
\* back to develop
FinishCleanup ==
    /\ pc \in {"cleanup", "restoreOnly"}
    /\ \E listOk, should_restore, popOk, checkoutOk \in BOOLEAN :
        IF ~listOk
        THEN \* git stash list throws: main's catch
             /\ Exit("1", {"An error occurred"})
             /\ UNCHANGED <<stashed, head>>
        ELSE /\ stashed' = (stashed /\ ~(should_restore /\ popOk))
             /\ head' = IF pc = "cleanup" /\ checkoutOk THEN S_develop ELSE head
             /\ Return({})
    /\ UNCHANGED <<impl, flowOp, runs, remoteHeads, linearOn, apiKey, cwBranch, issue,
                   renameRet, msg, committed, err, forceRun, moveRun, deleteRun, prs,
                   finBranch, linearActs>>
    /\ UNCHANGED <<cfgVars, gitVars, linVars, aiVars, cliVars, relVars, trkVars, wtVars>>

NextFlow ==
    \/ StartCommitWorkflow
    \/ LinearIssueStep
    \/ RenameBranchToLinearPattern
    \/ GenerateMessage
    \/ MessageLoop
    \/ ProcessCommit
    \/ PushPrompt
    \/ DivergedMenu
    \/ ForcePrompt
    \/ CommitCatch
    \/ StageRelease
    \/ StartFinishFeature
    \/ StartFinishRelease
    \/ StartFinishHotfix
    \/ FinishPush
    \/ FinishAnalyze
    \/ FinishCreatePR
    \/ FinishLink
    \/ FinishBackport
    \/ FinishCleanup

SpecFlow == InitFlow /\ [][NextFlow]_vars

(***************************************************************************)
(* Properties of the workflows                                             *)
(***************************************************************************)
ProcessCommitSites == {"processCommit.menu", "processCommit.confirm"}

\* C1: in processCommit's push-failure handling no git push --force is
\* executed while the current branch is main, develop or staging, whatever
\* the user answers.
C1_NoForcePushFromProtectedBranch ==
    \A r \in forceRun : r.site \in ProcessCommitSites => r.ref \notin TrunkNames

\* C2: the commit workflow's create-issue-and-rename step never runs
\* git branch -m on main, develop or staging and never deletes the remote
\* ref of one of them.
C2_NoRenameOrDeleteOfProtected ==
    /\ \A b \in moveRun : b \notin TrunkNames
    /\ \A b \in deleteRun : b \notin TrunkNames

\* C3: no workflow operation force-pushes onto the remote ref of main,
\* develop or staging.
C3_NoForcePushOntoProtectedRef ==
    \A r \in forceRun : r.ref \notin TrunkNames

\* C11: every finish workflow opens its primary pull request against the
\* merge target of the type of the branch the request is opened from, also
\* when the commit workflow renamed the branch on the way.
C11_PrimaryPrAgainstMergeTarget ==
    \A p \in prs : p.primary => p.base = getBaseBranchFor(getBranchType(p.head))

C11_Witness ==
    /\ renameRet = "true"
    /\ \E p \in prs :
        /\ p.primary /\ p.op = "finishFeature"
        /\ p.head = generateLinearBranchName(S_DEV1, S_featureSlash \o <<"x">>)

\* C20: with linearEnabled false no workflow offers to create an issue, renames a
\* branch to embed an identifier or calls the issue tracker (createLinearIssue,
\* fetchLinearLabels, linkLinearIssueToPR), and finishRelease never links an issue.
C20_DisabledTrackerUntouched ==
    /\ ~linearOn => linearActs = {}
    /\ flowOp = "finishRelease" => "linkLinearIssueToPR" \notin linearActs

C24_PrOnlyAfterBranchPushed ==
    pc = "createPR" /\ flowOp \in FinishOps => finBranch \in remoteHeads

\* C29: in processCommit, once git commit has succeeded, a failing push step is
\* never reported as "Failed to commit changes", never treated as a pre-commit
\* hook failure and never ends the process with exit status 1.
C29_PushFailureIsNotCommitFailure ==
    [][pc = "catch" /\ committed =>
          /\ reported' \cap {"Failed to commit changes",
                             "Commit failed due to pre-commit hook"} = {}
          /\ exitCode' # "1"]_vars

\* C21: renameBranchToLinearPattern returns true only if the rename is complete:
\* the local branch carries the new name, the new branch is on the remote and the
\* old remote ref is gone; in every other outcome it returns false.
RenameComplete ==
    /\ head = generateLinearBranchName(issue, cwBranch)
    /\ head \in remoteHeads
    /\ cwBranch \notin remoteHeads

C21_RenameTrueIffComplete ==
    pc = "describe" /\ renameRet # "none" => (renameRet = "true" <=> RenameComplete)

(***************************************************************************)
(* workflows/linear.ts: cleanTitleForLinear                                *)
(***************************************************************************)
\* the alternatives of conventional_pattern, in its order
ConventionalTypes ==
    << <<"f", "e", "a", "t">>,
       <<"f", "i", "x">>,
       <<"d", "o", "c", "s">>,
       <<"s", "t", "y", "l", "e">>,
       <<"r", "e", "f", "a", "c", "t", "o", "r">>,
       <<"t", "e", "s", "t">>,
       <<"c", "h", "o", "r", "e">>,
       <<"p", "e", "r", "f">>,
       <<"c", "i">>,
       <<"b", "u", "i", "l", "d">>,
       <<"r", "e", "v", "e", "r", "t">> >>

S_colonSpace == <<":", " ">>

\* the first ")" after position n, 0 if there is none
ClosingParen(t, n) ==
    IF \E k \in (n + 1)..Len(t) : t[k] = ")"
    THEN Min({k \in (n + 1)..Len(t) : t[k] = ")"})
    ELSE 0

\* the length of the match of
\* /^(feat|...|revert)(\([^)]+\))?: /i at the start of t, 0 if it does not match
ConventionalMatchLen(t) ==
    LET low == toLowerCase(t)
        hits == {i \in 1..Len(ConventionalTypes) : startsWith(low, ConventionalTypes[i])}
    IN  IF hits = {} THEN 0
        ELSE LET n == Len(ConventionalTypes[Min(hits)])
                 k == ClosingParen(t, n + 1)
             IN  IF startsWith(SubSeq(t, n + 1, Len(t)), S_colonSpace) THEN n + 2
                 ELSE IF /\ Len(t) > n /\ t[n + 1] = "("
                         /\ k > n + 2
                         /\ startsWith(SubSeq(t, k + 1, Len(t)), S_colonSpace)
                 THEN k + 2
                 ELSE 0

cleanTitleForLinear(pr_title) ==
    SubSeq(pr_title, ConventionalMatchLen(pr_title) + 1, Len(pr_title))

(***************************************************************************)
(* The helpers of workflows/linear applied to bounded inputs               *)
(***************************************************************************)
TitlePrefixes ==
    { <<>>, <<"f", "e", "a", "t">>, <<"F", "I", "X">>, <<"f", "e", "a", "t", "(", "a", ")">>, <<"f", "i", "x", "(", ")">>, <<"c", "i", "(", "a">>, <<"w", "i", "p">> }
TitleSeparators == { <<":", " ">>, <<":">>, <<" ">> }
TitleRests ==
    { <<>>, <<"x">>, <<"f", "i", "x", ":", " ", "x">>, <<"C", "i", "(", "b", ")", ":", " ", "y">> }
TitleInputs == {p \o m \o r : p \in TitlePrefixes, m \in TitleSeparators, r \in TitleRests}

IssueIds == { <<"D", "E", "V", "-", "1">>, <<"d", "e", "v", "-", "1", "2">>, <<"a", "-", "0">>, <<"E", "v", "-", "4", "5", "6">> }
Descriptions ==
    { <<>>, <<"x">>, <<"a", "-", "b">>, <<"-", "x", "-">>, <<"a", "-", "-", "b">>, <<"X", "9">>, <<"d", "e", "v", "-", "2", "-", "y">>, <<"-">>, <<"1", "-", "2">> }
S_userSlash == <<"u", "s", "e", "r", "/">>

InitLinear ==
    /\ linIn \in [fn : {"cleanTitleForLinear"}, title : TitleInputs]
                 \cup [fn : {"generateLinearBranchName"}, id : IssueIds, desc : Descriptions]
    /\ linOut = <<>>
    /\ CfgIdle
    /\ GitIdle
    /\ FlowIdle
    /\ AiIdle
    /\ CliIdle
    /\ RelIdle
    /\ TrkIdle
    /\ WtIdle

\* cleanTitleForLinear(t) and cleanTitleForLinear of its result
CallCleanTitleForLinear ==
    /\ linIn.fn = "cleanTitleForLinear"
    /\ linOut = <<>>
    /\ LET once == cleanTitleForLinear(linIn.title)
       IN  linOut' = <<"cleaned", once, cleanTitleForLinear(once)>>
    /\ UNCHANGED <<linIn, cfgVars, gitVars, flowVars, aiVars, cliVars, relVars, trkVars, wtVars>>

\* generateLinearBranchName(id, "user/" + desc), detectLinearIssue of the
\* name, and generateLinearBranchName again with the detected identifier
CallGenerateLinearBranchName ==
    /\ linIn.fn = "generateLinearBranchName"
    /\ linOut = <<>>
    /\ LET current_branch == S_userSlash \o linIn.desc
           name == generateLinearBranchName(linIn.id, current_branch)
           detected == detectLinearIssue(name)
       IN  linOut' = <<"named", name, detected,
                       IF detected = Null THEN Null
                       ELSE generateLinearBranchName(detected, current_branch)>>
    /\ UNCHANGED <<linIn, cfgVars, gitVars, flowVars, aiVars, cliVars, relVars, trkVars, wtVars>>

NextLinear ==
    \/ CallCleanTitleForLinear
    \/ CallGenerateLinearBranchName

SpecLinear == InitLinear /\ [][NextLinear]_vars

\* C12: cleanTitleForLinear is idempotent: cleaning a cleaned title gives
\* the cleaned title again.
C12_CleanTitleIdempotent ==
    (linOut # <<>> /\ linOut[1] = "cleaned") => linOut[3] = linOut[2]

\* C13: for an identifier [A-Za-z]+-[0-9]+ and a description of letters,
\* digits and hyphens, detectLinearIssue(generateLinearBranchName(id,
\* "user/" + desc)) is the identifier in upper case, and generating the name
\* again from the detected identifier gives the same name.
C13_DetectGenerateRoundTrip ==
    (linOut # <<>> /\ linOut[1] = "named") =>
        /\ linOut[3] = toUpperCase(linIn.id)
        /\ linOut[4] = linOut[2]

C13_Witness ==
    /\ linOut # <<>> /\ linOut[1] = "named"
    /\ linIn.id = <<"d", "e", "v", "-", "1", "2">>
    /\ linIn.desc = <<"d", "e", "v", "-", "2", "-", "y">>
    /\ linOut[3] = <<"D", "E", "V", "-", "1", "2">>

(***************************************************************************)
(* AI content generation: generateCommitMessage, generatePRContent and     *)
(* generateLinearContent of workflows/ai                                   *)
(***************************************************************************)
MaxAiCalls == 2

Generators == {"generateCommitMessage", "generatePRContent", "generateLinearContent"}

\* the execSync calls each generator makes before its try block
ContextCommands(fn) ==
    IF fn = "generatePRContent"
    THEN {"git diff --stat", "git diff", "git log", "git rev-list --count"}
    ELSE {"git diff --cached --stat", "git diff --cached"}

\* how a request and the validation of its text can end
StreamOutcomes == {"valid", "requestError", "streamError", "invalidJson", "schemaViolation"}
PlainOutcomes == {"valid", "requestError", "invalidJson", "schemaViolation"}

\* the inner catch (streaming_error) receives whatever the inner try block throws
StreamingCaughtMutRequestOnly(out) == out \in {"requestError", "streamError"}
StreamingCaught(out) == out # "valid"

InitAi ==
    /\ aiOp = "none" /\ aiPc = "idle" /\ aiInstance = FALSE
    /\ googleAiKey \in BOOLEAN
    /\ aiCalls = 0 /\ streamReqs = 0 /\ plainReqs = 0
    /\ streamOut = "none" /\ plainOut = "none" /\ aiRet = "none"
    /\ CfgIdle
    /\ GitIdle
    /\ FlowIdle
    /\ LinIdle
    /\ CliIdle
    /\ RelIdle
    /\ TrkIdle
    /\ WtIdle

AiDone(ret) == aiPc' = "done" /\ aiRet' = ret

\* the call and the context gathering that precedes the try block: a failing
\* execSync throws out of the generator
CallGenerator(fn) ==
    /\ aiPc \in {"idle", "done"}
    /\ aiCalls < MaxAiCalls
    /\ aiCalls' = aiCalls + 1
    /\ aiOp' = fn
    /\ streamReqs' = 0 /\ plainReqs' = 0 /\ streamOut' = "none" /\ plainOut' = "none"
    /\ \E failing \in SUBSET ContextCommands(fn) :
           IF failing # {} THEN AiDone("raised")
           ELSE aiPc' = "getAI" /\ aiRet' = "none"
    /\ UNCHANGED <<aiInstance, googleAiKey, cfgVars, gitVars, flowVars, linVars, cliVars, relVars, trkVars, wtVars>>

\* getAI inside the outer try: the singleton, or the key of getConfig()
GetAI ==
    /\ aiPc = "getAI"
    /\ IF aiInstance \/ googleAiKey
       THEN aiInstance' = TRUE /\ aiPc' = "stream" /\ aiRet' = "none"
       ELSE aiInstance' = FALSE /\ AiDone("null")
    /\ UNCHANGED <<aiOp, googleAiKey, aiCalls, streamReqs, plainReqs, streamOut, plainOut,
                   cfgVars, gitVars, flowVars, linVars, cliVars, relVars, trkVars, wtVars>>

\* the inner try: generateContentStream, the for await loop, OutputSchema.parse
StreamingRequest ==
    /\ aiPc = "stream"
    /\ streamReqs' = streamReqs + 1
    /\ \E out \in StreamOutcomes :
           /\ streamOut' = out
           /\ IF StreamingCaught(out) THEN aiPc' = "fallback" /\ aiRet' = "none"
              ELSE IF out = "valid" THEN AiDone("content")
              ELSE AiDone("null")
    /\ UNCHANGED <<aiOp, aiInstance, googleAiKey, aiCalls, plainReqs, plainOut,
                   cfgVars, gitVars, flowVars, linVars, cliVars, relVars, trkVars, wtVars>>

\* the inner catch: generateContent and OutputSchema.parse; a throw reaches the
\* outer catch, which returns null
FallbackRequest ==
    /\ aiPc = "fallback"
    /\ plainReqs' = plainReqs + 1
    /\ \E out \in PlainOutcomes :
           /\ plainOut' = out
           /\ IF out = "valid" THEN AiDone("content") ELSE AiDone("null")
    /\ UNCHANGED <<aiOp, aiInstance, googleAiKey, aiCalls, streamReqs, streamOut,
                   cfgVars, gitVars, flowVars, linVars, cliVars, relVars, trkVars, wtVars>>

NextAi ==
    \/ \E fn \in Generators : CallGenerator(fn)
    \/ GetAI
    \/ StreamingRequest
    \/ FallbackRequest

SpecAi == InitAi /\ [][NextAi]_vars

\* C14: generateCommitMessage, generatePRContent and generateLinearContent never
\* raise to their caller; every failure ends in a null result.
C14_GeneratorsNeverRaise == aiRet # "raised"

\* C15: a generator call issues at most one streaming and at most one non-streaming
\* request; the fallback request is issued exactly when the streaming path failed
\* (request error, stream error, invalid JSON, schema violation), and a failed
\* fallback ends the call with null and no further request.
C15_OneStreamOneFallback ==
    /\ streamReqs <= 1
    /\ plainReqs <= 1
    /\ plainReqs = 1 => streamOut \in StreamOutcomes \ {"valid"}
    /\ aiPc = "done" /\ streamOut \in StreamOutcomes \ {"valid"} => plainReqs = 1
    /\ plainOut \in PlainOutcomes \ {"valid"} => aiPc = "done" /\ aiRet = "null"
    /\ aiRet = "content" => "valid" \in {streamOut, plainOut}

C15_Witness ==
    /\ aiPc = "done" /\ aiRet = "null"
    /\ streamReqs = 1 /\ streamOut = "schemaViolation"
    /\ plainReqs = 1 /\ plainOut = "schemaViolation"

(***************************************************************************)
(* Release start: getNextReleaseIncrement and startRelease of              *)
(* release-workflow.ts, after ensureRequiredBranches of utils/setup        *)
(***************************************************************************)
DigitSeq == <<"0", "1", "2", "3", "4", "5", "6", "7", "8", "9">>
DigitValue(c) == (CHOOSE i \in 1..10 : DigitSeq[i] = c) - 1

\* parseInt of a string of decimal digits
RECURSIVE parseInt(_)
parseInt(ds) ==
    IF ds = <<>> THEN 0
    ELSE 10 * parseInt(SubSeq(ds, 1, Len(ds) - 1)) + DigitValue(ds[Len(ds)])

\* `${increment}`: the decimal digits of a non-negative number
RECURSIVE numberToString(_)
numberToString(n) ==
    IF n < 10 THEN <<DigitSeq[n + 1]>>
    ELSE numberToString(n \div 10) \o <<DigitSeq[(n % 10) + 1]>>

\* String.prototype.includes
includes(s, sub) ==
    \E i \in 1..(Len(s) - Len(sub) + 1) : SubSeq(s, i, i + Len(sub) - 1) = sub

\* length of the run of digits of s that starts at position i
DigitRun(s, i) ==
    CHOOSE n \in 0..(Len(s) - i + 1) :
        /\ \A j \in i..(i + n - 1) : IsDigit(s[j])
        /\ i + n > Len(s) \/ ~IsDigit(s[i + n])

\* b.match(/release\/\d+\.(\d+)/) at position i: the captured digits, or Null
ReleaseMatchAt(s, i) ==
    IF i + 7 > Len(s) \/ SubSeq(s, i, i + 7) # S_releaseSlash THEN Null
    ELSE LET d1 == DigitRun(s, i + 8)
             dot == i + 8 + d1
         IN  IF d1 = 0 \/ dot > Len(s) \/ s[dot] # "." THEN Null
             ELSE LET d2 == DigitRun(s, dot + 1)
                  IN  IF d2 = 0 THEN Null ELSE SubSeq(s, dot + 1, dot + d2)

ReleaseMatch(s) ==
    LET hits == {i \in 1..Len(s) : ReleaseMatchAt(s, i) # Null}
    IN  IF hits = {} THEN Null ELSE ReleaseMatchAt(s, Min(hits))

\* one line of `git branch -r` for a remote-tracking ref
S_origin == <<" ", " ", "o", "r", "i", "g", "i", "n", "/">>
BranchLine(name) == S_origin \o name

\* getNextReleaseIncrement(date); lines are the lines `git branch -r` printed,
\* threw is TRUE when execSync raised
getNextReleaseIncrement(date, lines, threw) ==
    IF threw THEN 1
    ELSE LET release_branches == {b \in lines : includes(b, S_releaseSlash \o date \o <<".">>)}
             increments == {IF ReleaseMatch(b) # Null THEN parseInt(ReleaseMatch(b)) ELSE 0 :
                               b \in release_branches}
         IN  IF release_branches = {} THEN 1 ELSE Max(increments) + 1

\* `release/${release_date}.${increment}`
ReleaseBranchName(date, increment) ==
    S_releaseSlash \o date \o <<".">> \o numberToString(increment)

ReleaseDates == { <<"2", "0", "2", "5", "0", "1", "0", "1">>,
                  <<"2", "0", "2", "5", "0", "1", "0", "2">> }
ReleaseHeads ==
    { ReleaseBranchName(<<"2", "0", "2", "5", "0", "1", "0", "1">>, 1),
      ReleaseBranchName(<<"2", "0", "2", "5", "0", "1", "0", "1">>, 2),
      ReleaseBranchName(<<"2", "0", "2", "5", "0", "1", "0", "1">>, 10),
      ReleaseBranchName(<<"2", "0", "2", "5", "0", "1", "0", "2">>, 1) }

InitRelease ==
    /\ relPc = "idle"
    /\ relCurrent \in {S_develop, S_featureSlash \o <<"x">>}
    /\ originHeads \in SUBSET ReleaseHeads
    /\ trackingRefs \in SUBSET ReleaseHeads
    /\ relDate = <<>> /\ relIncrement = 0 /\ relBranch = <<>>
    /\ relExit = "none" /\ relReported = "none"
    /\ CfgIdle
    /\ GitIdle
    /\ FlowIdle
    /\ LinIdle
    /\ AiIdle
    /\ CliIdle
    /\ TrkIdle
    /\ WtIdle

RelExit(code, shown) == relPc' = "exited" /\ relExit' = code /\ relReported' = shown

\* ensureRequiredBranches, run by the interactive menu before the workflow
EnsureRequiredBranches ==
    /\ relPc = "idle"
    /\ \E missing \in BOOLEAN, shouldCreate \in BOOLEAN, hasCommits \in BOOLEAN :
           IF ~missing THEN relPc' = "menu" /\ relReported' = "none" /\ relExit' = "none"
           ELSE IF ~shouldCreate
                THEN RelExit("1", "flow requires main, develop, and staging branches")
           ELSE IF ~hasCommits
                THEN relPc' = "menu" /\ relReported' = "No commits found" /\ relExit' = "none"
           ELSE relPc' = "menu" /\ relReported' = "Created branches" /\ relExit' = "none"
    /\ UNCHANGED <<relCurrent, originHeads, trackingRefs, relDate, relIncrement, relBranch,
                   cfgVars, gitVars, flowVars, linVars, aiVars, cliVars, trkVars, wtVars>>

\* startRelease up to the date prompt: the develop check
StartRelease ==
    /\ relPc \in {"idle", "menu"}
    /\ IF relCurrent = S_develop
       THEN relPc' = "date" /\ relReported' = "none" /\ relExit' = "none"
            /\ UNCHANGED relCurrent
       ELSE \E should_switch \in BOOLEAN, ok \in BOOLEAN :
               IF ~should_switch
               THEN RelExit("1", "Release should branch from develop") /\ UNCHANGED relCurrent
               ELSE IF ~ok
                    THEN RelExit("1", "Failed to switch to develop") /\ UNCHANGED relCurrent
               ELSE /\ relCurrent' = S_develop
                    /\ relPc' = "date" /\ relReported' = "Switched to develop"
                    /\ relExit' = "none"
    /\ UNCHANGED <<originHeads, trackingRefs, relDate, relIncrement, relBranch,
                   cfgVars, gitVars, flowVars, linVars, aiVars, cliVars, trkVars, wtVars>>

\* startRelease from the date prompt on: the increment, git checkout -b and
\* git push -u origin
CreateReleaseBranch ==
    /\ relPc = "date"
    /\ \E release_date \in ReleaseDates, threw \in BOOLEAN,
          outcome \in {"checkout fails", "push fails", "pushed"} :
          LET increment == getNextReleaseIncrement(release_date,
                               {BranchLine(t) : t \in trackingRefs}, threw)
              branch_name == ReleaseBranchName(release_date, increment)
          IN  /\ relDate' = release_date
              /\ relIncrement' = increment
              /\ relBranch' = branch_name
              /\ relCurrent' = IF outcome = "checkout fails" THEN relCurrent ELSE branch_name
              /\ IF outcome = "pushed"
                 THEN /\ originHeads' = originHeads \cup {branch_name}
                      /\ trackingRefs' = trackingRefs \cup {branch_name}
                      /\ relPc' = "returned" /\ relExit' = "none"
                      /\ relReported' = "Release branch created"
                 ELSE /\ RelExit("1", "Failed to create release branch")
                      /\ UNCHANGED <<originHeads, trackingRefs>>
    /\ UNCHANGED <<cfgVars, gitVars, flowVars, linVars, aiVars, cliVars, trkVars, wtVars>>

NextRelease ==
    \/ EnsureRequiredBranches
    \/ StartRelease
    \/ CreateReleaseBranch

SpecRelease == InitRelease /\ [][NextRelease]_vars

\* the increments k for which origin has a branch release/{date}.{k}
ExistingIncrements(heads, date) ==
    {k \in 1..20 : ReleaseBranchName(date, k) \in heads}

\* C19: startRelease names the branch release/{date}.{n} with n one more than the
\* largest increment among origin's release/{date}.{k} branches, or 1 when there is
\* none, so n is never the increment of a branch that already exists on origin.
C19_NextFreeReleaseIncrement ==
    [][relBranch' # relBranch =>
          /\ relBranch' = ReleaseBranchName(relDate', relIncrement')
          /\ relIncrement' = (IF ExistingIncrements(originHeads, relDate') = {} THEN 1
                              ELSE Max(ExistingIncrements(originHeads, relDate')) + 1)
          /\ relIncrement' \notin ExistingIncrements(originHeads, relDate')]_vars

\* the messages that end a path because the user declined to continue, and those
\* that end it on a failure
DeclinedMessages ==
    {"Release should branch from develop", "flow requires main, develop, and staging branches"}
FailureMessages == {"Failed to switch to develop", "Failed to create release branch"}

\* C16: a path that ends because there is nothing to do or because the user
\* cancelled or declined exits with status 0, and a path that ends on an
\* unrecoverable failure exits with a non-zero status.
C16_ExitStatusMatchesOutcome ==
    relPc = "exited" =>
        /\ relReported \in DeclinedMessages => relExit = "0"
        /\ relReported \in FailureMessages => relExit = "1"

(***************************************************************************)
(* Process signals: setupGracefulExit and main of cli.ts, with the         *)
(* workflow that main awaits running between the events                    *)
(***************************************************************************)
Signals == {"SIGINT", "SIGTERM"}

\* consola.error reports after which a workflow carries on
WorkflowErrors == {"Failed to generate commit message", "Failed to push changes"}

InitCli ==
    /\ isExiting = FALSE
    /\ cliPc = "main"
    /\ timerArmed = FALSE
    /\ signals = 0
    /\ cliExit = "none"
    /\ cliExitBy = "none"
    /\ cliErrors = {}
    /\ CfgIdle
    /\ GitIdle
    /\ FlowIdle
    /\ LinIdle
    /\ AiIdle
    /\ RelIdle
    /\ TrkIdle
    /\ WtIdle

Alive == cliPc \in {"workflow", "returned"}

\* consola.error(message) as the user sees it, with the flag at that moment
Reported(message) == cliErrors \cup {<<message, isExiting>>}

ProcessExit(code, by) == cliPc' = "exited" /\ cliExit' = code /\ cliExitBy' = by

\* main up to the first await of the dispatched workflow; it runs synchronously
\* at module load, before any signal handler can run
MainDispatch ==
    /\ cliPc = "main"
    /\ cliPc' = IF isExiting THEN "returned" ELSE "workflow"
    /\ UNCHANGED <<isExiting, timerArmed, signals, cliExit, cliExitBy, cliErrors,
                   cfgVars, gitVars, flowVars, linVars, aiVars, relVars, trkVars, wtVars>>

\* handleExit(signal)
HandleExit(signal) ==
    /\ Alive
    /\ signals' = signals + 1
    /\ IF isExiting
       THEN ProcessExit("1", "handleExit") /\ UNCHANGED <<isExiting, timerArmed>>
       ELSE /\ isExiting' = TRUE
            /\ timerArmed' = TRUE
            /\ UNCHANGED <<cliPc, cliExit, cliExitBy>>
    /\ UNCHANGED <<cliErrors, cfgVars, gitVars, flowVars, linVars, aiVars, relVars, trkVars, wtVars>>

\* the callback of setTimeout(..., 100)
GraceTimerFires ==
    /\ timerArmed
    /\ Alive
    /\ timerArmed' = FALSE
    /\ ProcessExit("0", "timer")
    /\ UNCHANGED <<isExiting, signals, cliErrors,
                   cfgVars, gitVars, flowVars, linVars, aiVars, relVars, trkVars, wtVars>>

\* a workflow step that reports an error and carries on
WorkflowReportsError ==
    /\ cliPc = "workflow"
    /\ \E m \in WorkflowErrors : cliErrors' = Reported(m)
    /\ UNCHANGED <<isExiting, cliPc, timerArmed, signals, cliExit, cliExitBy,
                   cfgVars, gitVars, flowVars, linVars, aiVars, relVars, trkVars, wtVars>>

\* a workflow step that ends the process: process.exit(0), or consola.error
\* followed by process.exit(1)
WorkflowExits ==
    /\ cliPc = "workflow"
    /\ \/ ProcessExit("0", "workflow") /\ UNCHANGED cliErrors
       \/ ProcessExit("1", "workflow") /\ cliErrors' = Reported("Failed to commit changes")
    /\ UNCHANGED <<isExiting, timerArmed, signals,
                   cfgVars, gitVars, flowVars, linVars, aiVars, relVars, trkVars, wtVars>>

\* the workflow resolves and main returns
WorkflowReturns ==
    /\ cliPc = "workflow"
    /\ cliPc' = "returned"
    /\ UNCHANGED <<isExiting, timerArmed, signals, cliExit, cliExitBy, cliErrors,
                   cfgVars, gitVars, flowVars, linVars, aiVars, relVars, trkVars, wtVars>>

\* the workflow rejects: the catch block of main
MainCatch ==
    /\ cliPc = "workflow"
    /\ IF isExiting
       THEN cliPc' = "returned" /\ UNCHANGED <<cliExit, cliExitBy, cliErrors>>
       ELSE ProcessExit("1", "main catch") /\ cliErrors' = Reported("An error occurred")
    /\ UNCHANGED <<isExiting, timerArmed, signals,
                   cfgVars, gitVars, flowVars, linVars, aiVars, relVars, trkVars, wtVars>>

\* the uncaughtException and unhandledRejection handlers
UnhandledError ==
    /\ Alive
    /\ \E m \in {"Uncaught exception", "Unhandled promise rejection"} :
          IF isExiting
          THEN UNCHANGED <<cliPc, cliExit, cliExitBy, cliErrors>>
          ELSE ProcessExit("1", "error handler") /\ cliErrors' = Reported(m)
    /\ UNCHANGED <<isExiting, timerArmed, signals,
                   cfgVars, gitVars, flowVars, linVars, aiVars, relVars, trkVars, wtVars>>

\* main has returned and nothing is pending: the process ends on its own
EventLoopDrains ==
    /\ cliPc = "returned"
    /\ ~timerArmed
    /\ ProcessExit("0", "drain")
    /\ UNCHANGED <<isExiting, timerArmed, signals, cliErrors,
                   cfgVars, gitVars, flowVars, linVars, aiVars, relVars, trkVars, wtVars>>

NextCli ==
    \/ MainDispatch
    \/ \E signal \in Signals : HandleExit(signal)
    \/ GraceTimerFires
    \/ WorkflowReportsError
    \/ WorkflowExits
    \/ WorkflowReturns
    \/ MainCatch
    \/ UnhandledError
    \/ EventLoopDrains

SpecCli == InitCli /\ [][NextCli]_vars

\* the event loop runs a due timer callback, and the workflow code between two
\* awaits is finite
SpecCliFair == SpecCli /\ WF_vars(GraceTimerFires)

\* C17: once the first SIGINT/SIGTERM has set isExiting it stays set, and from
\* then until the process ends no error is reported to the user and nothing but
\* the forced exit of a second signal ends the process with an error status.
C17_InterruptSuppressesErrors ==
    /\ signals >= 1 => isExiting
    /\ \A r \in cliErrors : r[2] = FALSE
    /\ isExiting /\ cliExit = "1" => cliExitBy = "handleExit"

\* after an interrupt the process ends
TerminatesAfterInterrupt == isExiting ~> cliPc = "exited"

\* C18: after a first SIGINT/SIGTERM the process always terminates, with status 0
\* after the grace delay when no second signal arrives, and with a non-zero status
\* at once when a second signal arrives.
C18_InterruptTerminates ==
    /\ isExiting ~> cliPc = "exited"
    /\ [](isExiting /\ cliPc = "exited" =>
              /\ signals = 1 => cliExit = "0"
              /\ signals >= 2 => cliExit = "1" /\ cliExitBy = "handleExit")

(***************************************************************************)
(* Issue tracker: linkLinearIssueToPR and updateLinearIssue of             *)
(* workflows/linear against the issues and comments of the workspace       *)
(***************************************************************************)
MaxTrackerCalls == 3

S_DEV == <<"D", "E", "V">>
S_OPS == <<"O", "P", "S">>

\* the issues a workspace can hold: two teams share the number 1
WorkspaceIssues ==
    { [team |-> S_DEV, number |-> 1], [team |-> S_OPS, number |-> 1],
      [team |-> S_DEV, number |-> 2] }

\* the identifier Linear shows for an issue, e.g. DEV-1
IdentifierOf(i) == i.team \o <<"-">> \o numberToString(i.number)

\* parseInt(issue_identifier.split("-")[1]); -1 stands for NaN
IssueNumberOf(issue_identifier) ==
    LET dashes == {k \in 1..Len(issue_identifier) : issue_identifier[k] = "-"}
    IN  IF dashes = {} THEN -1
        ELSE LET first == Min(dashes)
                 later == {k \in dashes : k > first}
                 last == IF later = {} THEN Len(issue_identifier) ELSE Min(later) - 1
                 part == SubSeq(issue_identifier, first + 1, last)
                 digits == SubSeq(part, 1, DigitRun(part, 1))
             IN  IF digits = <<>> THEN -1 ELSE parseInt(digits)

\* linear.issues({ filter: { number: { eq: n } } }).nodes
IssuesByNumber(n) == {i \in trkIssues : i.number = n}

PrUrls == { <<"g", "/", "p", "/", "1">>, <<"g", "/", "p", "/", "1", "2">> }
S_prTitle == <<"t">>
CustomComments == {Null, <<"c">>}

\* comment_body of linkLinearIssueToPR
CommentBody(custom_comment, pr_title, pr_url) ==
    IF custom_comment # Null
    THEN custom_comment \o <<" ", "(">> \o pr_url \o <<")">>
    ELSE <<"[">> \o pr_title \o <<"]", "(">> \o pr_url \o <<")">>

\* existing_comments.nodes.some((comment) => comment.body.includes(pr_url))
pr_already_commentedMutNever(bodies, pr_url) == FALSE
pr_already_commented(bodies, pr_url) == \E b \in bodies : includes(b, pr_url)

InitTracker ==
    /\ trkIssues \in (SUBSET WorkspaceIssues) \ {{}}
    /\ trkTitles = [i \in trkIssues |-> <<"o">>]
    /\ trkComments = [i \in trkIssues |-> {}]
    /\ trkCreated = [k \in trkIssues \X PrUrls |-> 0]
    /\ trkTouched = {}
    /\ trkCalls = 0
    /\ trkRet = [ret |-> "none"]
    /\ CfgIdle
    /\ GitIdle
    /\ FlowIdle
    /\ LinIdle
    /\ AiIdle
    /\ CliIdle
    /\ RelIdle
    /\ WtIdle

TrackerCall == trkCalls < MaxTrackerCalls /\ trkCalls' = trkCalls + 1

\* a call that changes nothing: the issue is not found or a request throws first
TrackerFails(fn) ==
    /\ trkRet' = [ret |-> "false", fn |-> fn]
    /\ UNCHANGED <<trkTitles, trkComments, trkCreated, trkTouched>>

\* linkLinearIssueToPR(issue_identifier, pr_title, pr_url, api_key, is_update, custom_comment)
LinkLinearIssueToPR(issue_identifier, pr_title, pr_url, is_update, custom_comment) ==
    /\ TrackerCall
    /\ LET found == IssuesByNumber(IssueNumberOf(issue_identifier))
       IN  \/ TrackerFails("linkLinearIssueToPR")
           \/ /\ found = {}
              /\ TrackerFails("linkLinearIssueToPR")
           \/ \E node \in found, createThrows \in BOOLEAN :
                 LET wants == IF is_update THEN custom_comment # Null
                              ELSE ~pr_already_commented(trkComments[node], pr_url)
                     creates == wants /\ ~createThrows
                     body == CommentBody(custom_comment, pr_title, pr_url)
                 IN  /\ trkTitles' = [trkTitles EXCEPT ![node] = pr_title]
                     /\ trkTouched' = trkTouched \cup {<<issue_identifier, node>>}
                     /\ trkComments' = IF creates
                                       THEN [trkComments EXCEPT ![node] = @ \cup {body}]
                                       ELSE trkComments
                     /\ trkCreated' = IF creates /\ ~is_update
                                      THEN [trkCreated EXCEPT ![<<node, pr_url>>] = @ + 1]
                                      ELSE trkCreated
                     /\ trkRet' = [ret |-> IF wants /\ createThrows THEN "false" ELSE "true",
                                   fn |-> "linkLinearIssueToPR", issue |-> node,
                                   url |-> pr_url, is_update |-> is_update,
                                   created |-> creates]
    /\ UNCHANGED <<trkIssues, cfgVars, gitVars, flowVars, linVars, aiVars, cliVars, relVars,
                   wtVars>>

\* updateLinearIssue(issue_identifier, title, description, api_key)
UpdateLinearIssue(issue_identifier, title) ==
    /\ TrackerCall
    /\ LET found == IssuesByNumber(IssueNumberOf(issue_identifier))
       IN  \/ TrackerFails("updateLinearIssue")
           \/ /\ found = {}
              /\ TrackerFails("updateLinearIssue")
           \/ \E node \in found :
                 /\ trkTitles' = [trkTitles EXCEPT ![node] = title]
                 /\ trkTouched' = trkTouched \cup {<<issue_identifier, node>>}
                 /\ trkRet' = [ret |-> "true", fn |-> "updateLinearIssue", issue |-> node]
                 /\ UNCHANGED <<trkComments, trkCreated>>
    /\ UNCHANGED <<trkIssues, cfgVars, gitVars, flowVars, linVars, aiVars, cliVars, relVars,
                   wtVars>>

NextTracker ==
    \/ \E i \in WorkspaceIssues, u \in PrUrls, is_update \in BOOLEAN, c \in CustomComments :
          LinkLinearIssueToPR(IdentifierOf(i), S_prTitle, u, is_update, c)
    \/ \E i \in WorkspaceIssues : UpdateLinearIssue(IdentifierOf(i), S_prTitle)

SpecTracker == InitTracker /\ [][NextTracker]_vars

C28_ModifiedIssueHasPassedIdentifier ==
    \A t \in trkTouched : IdentifierOf(t[2]) = t[1]

(***************************************************************************)
(* Working tree and stash: startFeature and startHotfix of the feature and *)
(* hotfix workflows, handleUncommittedChanges and                          *)
(* restoreStashedChangesIfNeeded of pr-shared as the finish workflows call *)
(* them.  A stash entry is its message and who pushed it.                  *)
(***************************************************************************)
StartOps == {"startFeature", "startHotfix"}

StashEntry(label, by) == [label |-> label, by |-> by]

\* `git stash push -u -m "dflow: temporary stash for ... start"`
StartStashLabel(o) ==
    IF o = "startFeature" THEN "dflow: temporary stash for feature start"
    ELSE "dflow: temporary stash for hotfix start"

\* `git stash push -m "flow-automator: temporary stash"`
TempStashLabel == "flow-automator: temporary stash"

\* the stash as the workflow may find it: empty, an entry of the user, the
\* temporary entry an earlier run left behind, or both
InitialStashes ==
    { <<>>,
      <<StashEntry("WIP on develop", "user")>>,
      <<StashEntry(TempStashLabel, "earlier run")>>,
      <<StashEntry("WIP on develop", "user"), StashEntry(TempStashLabel, "earlier run")>> }

WorkBranches == {S_develop, S_main, S_featureSlash \o <<"x">>}

\* the branch the new branch is cut from
StartBase(o) == IF o = "startFeature" THEN S_develop ELSE S_main

\* the commands of the discard branch: nothing unless the user selected
\* "discard" and confirmed
DiscardChangesMutUnconfirmed(action, discard_confirm) ==
    IF action = "discard" THEN {"git reset --hard HEAD", "git clean -fd"} ELSE {}

DiscardChanges(action, discard_confirm) ==
    IF action = "discard" /\ discard_confirm
    THEN {"git reset --hard HEAD", "git clean -fd"}
    ELSE {}

\* stash_list.includes("flow-automator: temporary stash")
has_temp_stash(list) == \E i \in DOMAIN list : list[i].label = TempStashLabel

\* `git stash pop`: applies and drops the newest entry; fails on an empty
\* stash or when the entry does not apply
GitStashPop(applies) ==
    /\ popAttempted' = TRUE
    /\ IF applies /\ stashList # <<>>
       THEN /\ popped' = popped \cup {stashList[1]}
            /\ stashList' = Tail(stashList)
            /\ wtDirty' = TRUE
       ELSE UNCHANGED <<popped, stashList, wtDirty>>

WtExit(code) == wtPc' = "exited" /\ wtExit' = code

InitWorktree ==
    /\ wtOp = "none"
    /\ wtPc = "idle"
    /\ wtCurrent \in WorkBranches
    /\ wtDirty \in BOOLEAN
    /\ stashList \in InitialStashes
    /\ stashedChanges = FALSE
    /\ popped = {}
    /\ popAttempted = FALSE
    /\ destructive = {}
    /\ answers = <<>>
    /\ wtExit = "none"
    /\ CfgIdle
    /\ GitIdle
    /\ FlowIdle
    /\ LinIdle
    /\ AiIdle
    /\ CliIdle
    /\ RelIdle
    /\ TrkIdle

\* startFeature / startHotfix up to the first prompt: git status decides
\* whether the user is asked about uncommitted changes
StartBranch(o) ==
    /\ wtPc = "idle"
    /\ wtOp' = o
    /\ wtPc' = IF wtDirty THEN "changesPrompt" ELSE "switch"
    /\ UNCHANGED <<wtCurrent, wtDirty, stashList, stashedChanges, popped, popAttempted,
                   destructive, answers, wtExit,
                   cfgVars, gitVars, flowVars, linVars, aiVars, cliVars, relVars, trkVars>>

\* "You have uncommitted changes. What would you like to do?"
ChangesPrompt ==
    /\ wtPc = "changesPrompt"
    /\ \E action \in {"stash", "discard", "cancel"}, stash_success \in BOOLEAN :
        /\ answers' = <<action>>
        /\ CASE action = "cancel" ->
                  /\ WtExit("0")
                  /\ UNCHANGED <<stashList, stashedChanges, wtDirty>>
             [] action = "stash" /\ stash_success ->
                  /\ stashList' = <<StashEntry(StartStashLabel(wtOp), "this run")>> \o stashList
                  /\ stashedChanges' = TRUE
                  /\ wtDirty' = FALSE
                  /\ wtPc' = "switch"
                  /\ wtExit' = wtExit
             [] action = "stash" /\ ~stash_success ->
                  /\ WtExit("1")
                  /\ UNCHANGED <<stashList, stashedChanges, wtDirty>>
             [] action = "discard" ->
                  /\ wtPc' = "discardConfirm"
                  /\ UNCHANGED <<stashList, stashedChanges, wtDirty, wtExit>>
    /\ UNCHANGED <<wtOp, wtCurrent, popped, popAttempted, destructive,
                   cfgVars, gitVars, flowVars, linVars, aiVars, cliVars, relVars, trkVars>>

\* "Are you sure you want to discard all changes? This cannot be undone."
DiscardConfirm ==
    /\ wtPc = "discardConfirm"
    /\ \E discard_confirm, reset_success \in BOOLEAN :
        LET run == DiscardChanges(answers[1], discard_confirm)
        IN  /\ answers' = Append(answers, IF discard_confirm THEN "yes" ELSE "no")
            /\ destructive' = destructive \cup run
            /\ IF run = {}
               THEN WtExit("0") /\ wtDirty' = wtDirty
               ELSE /\ wtPc' = "switch"
                    /\ wtExit' = wtExit
                    /\ wtDirty' = (wtDirty /\ ~reset_success)
    /\ UNCHANGED <<wtOp, wtCurrent, stashList, stashedChanges, popped, popAttempted,
                   cfgVars, gitVars, flowVars, linVars, aiVars, cliVars, relVars, trkVars>>

\* the switch to the base branch when another branch is checked out: a
\* failing fetch or checkout exits 1, a failing pull only warns; startFeature
\* then reapplies the stash
SwitchToBase ==
    /\ wtPc = "switch"
    /\ \E outcome \in {"fetch fails", "checkout fails", "pull fails", "switched"},
          applies \in BOOLEAN :
        IF wtCurrent # StartBase(wtOp) /\ outcome \in {"fetch fails", "checkout fails"}
        THEN /\ WtExit("1")
             /\ UNCHANGED <<wtCurrent, stashList, popped, popAttempted, wtDirty>>
        ELSE /\ wtCurrent' = StartBase(wtOp)
             /\ wtPc' = "create"
             /\ wtExit' = wtExit
             /\ IF wtOp = "startFeature" /\ stashedChanges
                THEN GitStashPop(applies)
                ELSE UNCHANGED <<stashList, popped, popAttempted, wtDirty>>
    /\ UNCHANGED <<wtOp, stashedChanges, destructive, answers,
                   cfgVars, gitVars, flowVars, linVars, aiVars, cliVars, relVars, trkVars>>

\* the branch name prompt, `git checkout -b` (failure exits 1) and the push
\* (failure only warns); startHotfix reapplies the stash last
CreateBranch ==
    /\ wtPc = "create"
    /\ \E outcome \in {"checkout fails", "push fails", "pushed"}, applies \in BOOLEAN :
        IF outcome = "checkout fails"
        THEN /\ WtExit("1")
             /\ UNCHANGED <<wtCurrent, stashList, popped, popAttempted, wtDirty>>
        ELSE /\ wtCurrent' = (IF wtOp = "startFeature" THEN S_featureSlash ELSE S_hotfixSlash)
                                \o <<"n">>
             /\ wtPc' = "done"
             /\ wtExit' = wtExit
             /\ IF wtOp = "startHotfix" /\ stashedChanges
                THEN GitStashPop(applies)
                ELSE UNCHANGED <<stashList, popped, popAttempted, wtDirty>>
    /\ UNCHANGED <<wtOp, stashedChanges, destructive, answers,
                   cfgVars, gitVars, flowVars, linVars, aiVars, cliVars, relVars, trkVars>>

\* handleUncommittedChanges at the head of a finish workflow: commit, stash
\* or abort when git status reports changes; any exception exits 1
HandleUncommittedChanges ==
    /\ wtPc = "idle"
    /\ wtOp' = "finish"
    /\ \E action \in {"commit", "stash", "abort"}, threw \in BOOLEAN :
        CASE threw ->
                /\ WtExit("1")
                /\ UNCHANGED <<answers, stashList, stashedChanges, wtDirty>>
          [] ~threw /\ ~wtDirty ->
                /\ wtPc' = "restore"
                /\ UNCHANGED <<answers, stashList, stashedChanges, wtDirty, wtExit>>
          [] ~threw /\ wtDirty /\ action = "commit" ->
                /\ answers' = <<action>>
                /\ wtDirty' = FALSE
                /\ wtPc' = "restore"
                /\ UNCHANGED <<stashList, stashedChanges, wtExit>>
          [] ~threw /\ wtDirty /\ action = "stash" ->
                /\ answers' = <<action>>
                /\ stashList' = <<StashEntry(TempStashLabel, "this run")>> \o stashList
                /\ stashedChanges' = TRUE
                /\ wtDirty' = FALSE
                /\ wtPc' = "restore"
                /\ wtExit' = wtExit
          [] ~threw /\ wtDirty /\ action = "abort" ->
                /\ answers' = <<action>>
                /\ WtExit("0")
                /\ UNCHANGED <<stashList, stashedChanges, wtDirty>>
    /\ UNCHANGED <<wtCurrent, popped, popAttempted, destructive,
                   cfgVars, gitVars, flowVars, linVars, aiVars, cliVars, relVars, trkVars>>

\* restoreStashedChangesIfNeeded, called once the pull request step is over
RestoreStashedChangesIfNeeded ==
    /\ wtPc = "restore"
    /\ wtPc' = "done"
    /\ \E should_restore, applies \in BOOLEAN :
        IF has_temp_stash(stashList)
        THEN /\ answers' = Append(answers, IF should_restore THEN "yes" ELSE "no")
             /\ IF should_restore
                THEN GitStashPop(applies)
                ELSE UNCHANGED <<stashList, popped, popAttempted, wtDirty>>
        ELSE UNCHANGED <<answers, stashList, popped, popAttempted, wtDirty>>
    /\ UNCHANGED <<wtOp, wtCurrent, stashedChanges, destructive, wtExit,
                   cfgVars, gitVars, flowVars, linVars, aiVars, cliVars, relVars, trkVars>>

NextWorktree ==
    \/ \E o \in StartOps : StartBranch(o)
    \/ ChangesPrompt
    \/ DiscardConfirm
    \/ SwitchToBase
    \/ CreateBranch
    \/ HandleUncommittedChanges
    \/ RestoreStashedChangesIfNeeded

SpecWorktree == InitWorktree /\ [][NextWorktree]_vars

WtEnded == wtPc \in {"done", "exited"}

\* C26: when startFeature or startHotfix has stashed the user's changes, the
\* workflow ends, by returning or by process exit, only after a `git stash
\* pop` has been attempted.
C26_StashPopBeforeEveryEnd ==
    wtOp \in StartOps /\ stashedChanges /\ WtEnded => popAttempted

\* C30: in startFeature and startHotfix `git reset --hard HEAD` and `git clean
\* -fd` run only after the user selected "discard" and then answered yes to
\* the confirmation; on any other sequence of answers neither command runs.
C30_DiscardNeedsDoubleConsent ==
    /\ destructive # {} =>
          /\ wtOp \in StartOps
          /\ Len(answers) = 2 /\ answers[1] = "discard" /\ answers[2] = "yes"
    /\ wtOp \in StartOps /\ WtEnded /\ answers # <<"discard", "yes">> => destructive = {}

\* both commands have run after "discard" and "yes"; and a run that answered
\* "discard" and "no" has ended
C30_Witness ==
    /\ wtOp \in StartOps
    /\ destructive = {"git reset --hard HEAD", "git clean -fd"}
    /\ answers = <<"discard", "yes">>

\* C27: restoreStashedChangesIfNeeded pops only the "flow-automator: temporary
\* stash" entry that handleUncommittedChanges pushed in the same run, never an
\* entry of the user or one left over from an earlier run.
C27_RestorePopsOnlyOwnTempStash ==
    wtOp = "finish" =>
        \A entry \in popped : entry = StashEntry(TempStashLabel, "this run")

====
